---- MODULE Spec2Model ----
(***************************************************************************)
(* A model of the chat server's query pipeline (chatServer/app): the       *)
(* session memory (ai/memory/chat_memory.py), the PII masker, the intent   *)
(* classifier, the orchestrator's fetch / prompt / LLM fallback chain and  *)
(* the WebSocket and REST entry points.                                    *)
(***************************************************************************)
EXTENDS Integers, Sequences, FiniteSets, TLC

\* ------------------------------------------------------------------------
\* Bounds of the model
\* ------------------------------------------------------------------------

\* largest max_messages a ChatMemory is constructed with in SpecMem
MaxCap == 2

\* number of add_message calls of one behaviour of SpecMem
MaxAppends == 4

\* ------------------------------------------------------------------------
\* Generic helpers
\* ------------------------------------------------------------------------

Min(a, b) == IF a < b THEN a ELSE b

Max(a, b) == IF a < b THEN b ELSE a

\* Python's  lst[-n:]  for a list lst and an integer n: the last n items for
\* 0 < n, the whole list for n = 0 (-0 is 0), and lst[|n|:] for n < 0.
PySliceLast(lst, n) ==
    LET len   == Len(lst)
        start == IF n > 0 THEN Max(len - n, 0)
                 ELSE IF n = 0 THEN 0
                 ELSE Min(-n, len)
    IN  SubSeq(lst, start + 1, len)

\* ------------------------------------------------------------------------
\* Texts: a str is a sequence of one-character strings
\* ------------------------------------------------------------------------

Digits == {"0", "1", "2", "3", "4", "5", "6", "7", "8", "9"}

UpperSeq == <<"A", "B", "C", "D", "E", "F", "G", "H", "I", "J", "K", "L", "M",
              "N", "O", "P", "Q", "R", "S", "T", "U", "V", "W", "X", "Y", "Z">>

LowerSeq == <<"a", "b", "c", "d", "e", "f", "g", "h", "i", "j", "k", "l", "m",
              "n", "o", "p", "q", "r", "s", "t", "u", "v", "w", "x", "y", "z">>

UpperLetters == {UpperSeq[i] : i \in 1..26}

LowerLetters == {LowerSeq[i] : i \in 1..26}

Letters == UpperLetters \cup LowerLetters

\* \s of the regular expressions and the characters str.strip() removes
Whitespace == {" ", "\t", "\n"}

\* \w of the regular expressions
IsWordChar(c) == c \in Letters \cup Digits \cup {"_"}

\* str.lower() on one character
LowerChar(c) ==
    IF c \in UpperLetters
    THEN LowerSeq[CHOOSE i \in 1..26 : UpperSeq[i] = c]
    ELSE c

\* str.lower()
StrLower(text) == [i \in 1..Len(text) |-> LowerChar(text[i])]

\* needle in hay  (Python substring test)
Contains(hay, needle) ==
    \E i \in 0..(Len(hay) - Len(needle)) :
        SubSeq(hay, i + 1, i + Len(needle)) = needle

\* the text as received, not trimmed
StrStrip_Keep(text) == text

\* str.strip()
StrStrip(text) ==
    LET keep == {i \in 1..Len(text) : text[i] \notin Whitespace}
    IN  IF keep = {} THEN <<>>
        ELSE SubSeq(text, CHOOSE i \in keep : \A j \in keep : i <= j,
                          CHOOSE i \in keep : \A j \in keep : j <= i)

\* '*' * n
Stars(n) == [i \in 1..Max(n, 0) |-> "*"]

\* re.sub(r'\D', '', m)
OnlyDigits(m) == SelectSeq(m, LAMBDA c : c \in Digits)

\* Python's s[:n] and s[-n:] for n > 0
PyPrefix(str, n) == SubSeq(str, 1, Min(n, Len(str)))

PySuffix(str, n) == PySliceLast(str, n)

\* ------------------------------------------------------------------------
\* PII masker (ai/utils/pii_masker.py)
\* ------------------------------------------------------------------------

\* \b at the position in front of text[i] (i = Len(text) + 1: the end)
WordBoundary(text, i) ==
    LET before == i > 1 /\ IsWordChar(text[i - 1])
        after  == i <= Len(text) /\ IsWordChar(text[i])
    IN  before # after

IsDigitAt(text, i) == i >= 1 /\ i <= Len(text) /\ text[i] \in Digits

\* (?:\d[ -]?){15,16}\b from position j with n repetitions matched so far:
\* the end of the match (the position after it), or 0. Greedy, with the
\* backtracking order of the re module: one more repetition first (with the
\* separator, then without), then stopping here.
RECURSIVE CardFrom(_, _, _)
CardFrom(text, j, n) ==
    LET more ==
            IF n < 16 /\ IsDigitAt(text, j)
            THEN LET withSep ==
                         IF j + 1 <= Len(text) /\ text[j + 1] \in {" ", "-"}
                         THEN CardFrom(text, j + 2, n + 1)
                         ELSE 0
                 IN  IF withSep # 0 THEN withSep
                     ELSE CardFrom(text, j + 1, n + 1)
            ELSE 0
    IN  IF more # 0 THEN more
        ELSE IF n >= 15 /\ WordBoundary(text, j) THEN j
        ELSE 0

\* credit_card: \b(?:\d[ -]?){15,16}\b
MatchCard(text, i) ==
    IF WordBoundary(text, i) THEN CardFrom(text, i, 0) ELSE 0

\* ssn: \b\d{3}-\d{2}-\d{4}\b
MatchSsn(text, i) ==
    IF /\ WordBoundary(text, i)
       /\ i + 10 <= Len(text)
       /\ \A k \in {0, 1, 2, 4, 5, 7, 8, 9, 10} : text[i + k] \in Digits
       /\ text[i + 3] = "-"
       /\ text[i + 6] = "-"
       /\ WordBoundary(text, i + 11)
    THEN i + 11
    ELSE 0

\* [6-9]\d{9}(?!\d) at position j
PhoneDigitsAt(text, j) ==
    IF /\ j + 9 <= Len(text)
       /\ text[j] \in {"6", "7", "8", "9"}
       /\ \A k \in 1..9 : text[j + k] \in Digits
       /\ ~IsDigitAt(text, j + 10)
    THEN j + 10
    ELSE 0

\* phone: (?<!\d)(?:\+91[-\s]?)?[6-9]\d{9}(?!\d)
MatchPhone(text, i) ==
    IF IsDigitAt(text, i - 1) THEN 0
    ELSE LET prefixed ==
                 IF i + 2 <= Len(text) /\ SubSeq(text, i, i + 2) = <<"+", "9", "1">>
                 THEN LET withSep ==
                              IF i + 3 <= Len(text) /\ text[i + 3] \in Whitespace \cup {"-"}
                              THEN PhoneDigitsAt(text, i + 4)
                              ELSE 0
                      IN  IF withSep # 0 THEN withSep
                          ELSE PhoneDigitsAt(text, i + 3)
                 ELSE 0
         IN  IF prefixed # 0 THEN prefixed ELSE PhoneDigitsAt(text, i)

\* PIIMasker._mask_phone
_mask_phone(m) ==
    LET digits == OnlyDigits(m)
    IN  IF Len(digits) >= 8
        THEN PyPrefix(digits, 4) \o Stars(Len(digits) - 6) \o PySuffix(digits, 2)
        ELSE <<"*", "*", "*", "*">>

\* PIIMasker._mask_card
_mask_card(m) ==
    LET digits == OnlyDigits(m)
    IN  IF Len(digits) >= 12
        THEN PyPrefix(digits, 4) \o Stars(Len(digits) - 8) \o PySuffix(digits, 4)
        ELSE <<"*", "*", "*", "*">>

\* PIIMasker._mask_ssn on a match of the ssn pattern (3 parts split by '-')
_mask_ssn(m) ==
    SubSeq(m, 1, 3) \o <<"-", "*", "*", "-">> \o SubSeq(m, 8, 11)

\* the end (the position after it) of the longest run of characters of
\* class cls that starts at position j; j itself when there is none
RunEnd(text, j, cls) ==
    LET stops == {k \in j..Len(text) : text[k] \notin cls}
    IN  IF stops = {} THEN Max(Len(text) + 1, j)
        ELSE CHOOSE k \in stops : \A l \in stops : k <= l

EmailLocalChars == Letters \cup Digits \cup {".", "_", "%", "+", "-"}

EmailDomainChars == Letters \cup Digits \cup {".", "-"}

\* email: \b[A-Za-z0-9._%+-]+@[A-Za-z0-9.-]+\.[A-Za-z]{2,}\b
\* The local part runs to the '@'. The domain part is greedy: the last '.'
\* of the domain run that is followed by two or more letters and a \b wins.
MatchEmail(text, i) ==
    LET at   == RunEnd(text, i, EmailLocalChars)
        dEnd == RunEnd(text, at + 1, EmailDomainChars)
        dots == {d \in (at + 2)..(dEnd - 1) :
                    /\ text[d] = "."
                    /\ RunEnd(text, d + 1, Letters) - (d + 1) >= 2
                    /\ WordBoundary(text, RunEnd(text, d + 1, Letters))}
    IN  IF /\ WordBoundary(text, i)
           /\ at > i
           /\ at <= Len(text)
           /\ text[at] = "@"
           /\ dots # {}
        THEN RunEnd(text, (CHOOSE d \in dots : \A e \in dots : e <= d) + 1, Letters)
        ELSE 0

\* PIIMasker._mask_email
_mask_email(m) ==
    LET at     == CHOOSE k \in 1..Len(m) : m[k] = "@" /\ \A l \in 1..(k - 1) : m[l] # "@"
        local  == SubSeq(m, 1, at - 1)
        domain == SubSeq(m, at + 1, Len(m))
    IN  IF Len(local) <= 2
        THEN Stars(Len(local)) \o <<"@">> \o domain
        ELSE PyPrefix(local, 2) \o Stars(Len(local) - 2) \o <<"@">> \o domain

\* text[j..] starts with the lower-case word, ignoring case (re.IGNORECASE)
StartsWithAt(text, j, word) ==
    /\ j + Len(word) - 1 <= Len(text)
    /\ StrLower(SubSeq(text, j, j + Len(word) - 1)) = word

\* [A-Z]{0,4}\d[A-Z0-9]{5,19} (re.IGNORECASE) at position j, followed by \b
\* when bounded: the end of the match, or 0
AccountTokenEnd(text, j, bounded) ==
    LET d    == RunEnd(text, j, Letters)
        run  == RunEnd(text, d + 1, Letters \cup Digits) - (d + 1)
        take == IF bounded THEN run ELSE Min(run, 19)
    IN  IF /\ d - j <= 4
           /\ IsDigitAt(text, d)
           /\ take >= 5
           /\ take <= 19
           /\ (bounded => WordBoundary(text, d + 1 + take))
        THEN d + 1 + take
        ELSE 0

\* the position after the keyword part
\*   account\s*(?:no\.?|number|#|:) | a\/c\s*:? | acc\s*:?
\* of the account_number pattern, for each alternative that matches at i,
\* in the order the alternatives are tried
AccountKeywordEnds(text, i) ==
    LET ws(j)  == RunEnd(text, j, Whitespace)
        opt(j, c) == IF j <= Len(text) /\ text[j] = c THEN j + 1 ELSE j
        a1 == IF StartsWithAt(text, i, <<"a", "c", "c", "o", "u", "n", "t">>)
              THEN LET k == ws(i + 7)
                   IN  IF StartsWithAt(text, k, <<"n", "o">>)
                       THEN <<opt(k + 2, "."), k + 2>>
                       ELSE IF StartsWithAt(text, k, <<"n", "u", "m", "b", "e", "r">>)
                       THEN <<k + 6>>
                       ELSE IF k <= Len(text) /\ text[k] \in {"#", ":"}
                       THEN <<k + 1>>
                       ELSE <<>>
              ELSE <<>>
        a2 == IF StartsWithAt(text, i, <<"a", "/", "c">>)
              THEN <<opt(ws(i + 3), ":"), ws(i + 3)>>
              ELSE <<>>
        a3 == IF StartsWithAt(text, i, <<"a", "c", "c">>)
              THEN <<opt(ws(i + 3), ":"), ws(i + 3)>>
              ELSE <<>>
    IN  a1 \o a2 \o a3

\* account_number: the position where group 1 starts for the first of the
\* keyword ends (in the order tried) after which \s* and the token match
AccountGroupAfter(text, i, ends) ==
    LET start(n) == RunEnd(text, ends[n], Whitespace)
        good  == {n \in 1..Len(ends) : AccountTokenEnd(text, start(n), TRUE) # 0}
    IN  IF WordBoundary(text, i) /\ good # {}
        THEN start(CHOOSE n \in good : \A m \in good : n <= m)
        ELSE 0

\* account_number: the position where group 1 starts, or 0
AccountGroupStart(text, i) ==
    AccountGroupAfter(text, i, AccountKeywordEnds(text, i))

\* the end of the token that starts at start; 0 when start is 0
AccountTokenFrom(text, start) ==
    IF start # 0 THEN AccountTokenEnd(text, start, TRUE) ELSE 0

\* account_number:
\*   \b(?:account\s*(?:no\.?|number|#|:)|a\/c\s*:?|acc\s*:?)\s*
\*   ([A-Z]{0,4}\d[A-Z0-9]{5,19})\b
MatchAccount(text, i) == AccountTokenFrom(text, AccountGroupStart(text, i))

\* _mask_account_static
_mask_account_static(m) ==
    IF Len(m) > 6
    THEN PyPrefix(m, 4) \o Stars(Len(m) - 6) \o PySuffix(m, 2)
    ELSE PyPrefix(m, 2) \o <<"*", "*", "*", "*">>

\* the account_number mask function: re.sub of the first occurrence of
\* [A-Z]{0,4}\d[A-Z0-9]{5,19} in the matched string by its masked form
MaskAccountMatch(m) ==
    LET hits == {j \in 1..Len(m) : AccountTokenEnd(m, j, FALSE) # 0}
    IN  IF hits = {} THEN m
        ELSE LET j == CHOOSE h \in hits : \A g \in hits : h <= g
                 e == AccountTokenEnd(m, j, FALSE)
             IN  SubSeq(m, 1, j - 1) \o _mask_account_static(SubSeq(m, j, e - 1))
                     \o SubSeq(m, e, Len(m))

NonSpaceAt(text, j) == j <= Len(text) /\ text[j] \notin Whitespace

\* the end of the run of \S characters that starts at j
NonSpaceRunEnd(text, j) ==
    LET stops == {k \in j..Len(text) : text[k] \in Whitespace}
    IN  IF stops = {} THEN Len(text) + 1
        ELSE CHOOSE k \in stops : \A l \in stops : k <= l

\* password: the position where group 1 (\S+) starts, or 0
PasswordGroupStart(text, i) ==
    LET kw == IF StartsWithAt(text, i, <<"p", "a", "s", "s", "w", "o", "r", "d">>)
              THEN i + 8
              ELSE IF StartsWithAt(text, i, <<"p", "a", "s", "s", "w", "d">>)
              THEN i + 6
              ELSE IF StartsWithAt(text, i, <<"p", "w", "d">>)
              THEN i + 3
              ELSE 0
        w1 == RunEnd(text, kw, Whitespace)
        op == IF StartsWithAt(text, w1, <<"i", "s">>) THEN w1 + 2
              ELSE IF w1 <= Len(text) /\ text[w1] \in {":", "="} THEN w1 + 1
              ELSE 0
        w2 == RunEnd(text, op, Whitespace)
    IN  IF kw = 0 THEN 0
        ELSE IF op # 0 /\ NonSpaceAt(text, w2) THEN w2
        ELSE IF NonSpaceAt(text, w1) THEN w1
        ELSE 0

\* the end of the \S+ that starts at start; 0 when start is 0
PasswordGroupFrom(text, start) ==
    IF start # 0 THEN NonSpaceRunEnd(text, start) ELSE 0

\* password: (?:password|passwd|pwd)\s*(?:is|:|=)?\s*(\S+)
MatchPassword(text, i) == PasswordGroupFrom(text, PasswordGroupStart(text, i))

\* the password mask function: re.sub(r'(\S+)$', '********', m)
MaskPasswordMatch(m) ==
    LET spaces == {k \in 1..Len(m) : m[k] \in Whitespace}
        last   == IF spaces = {} THEN 0
                  ELSE CHOOSE k \in spaces : \A l \in spaces : l <= k
    IN  SubSeq(m, 1, last) \o <<"*", "*", "*", "*", "*", "*", "*", "*">>

\* PIIMasker.PATTERNS: the labels in declaration order
PATTERNS == <<"credit_card", "ssn", "phone", "email", "account_number", "password">>

\* the end of the match of a pattern at position i, or 0
MatchEnd(label, text, i) ==
    CASE label = "credit_card"    -> MatchCard(text, i)
      [] label = "ssn"            -> MatchSsn(text, i)
      [] label = "phone"          -> MatchPhone(text, i)
      [] label = "email"          -> MatchEmail(text, i)
      [] label = "account_number" -> MatchAccount(text, i)
      [] label = "password"       -> MatchPassword(text, i)

\* what findall reports for the match from i to end: group 1 where the
\* pattern has a group
MatchGroup(label, text, i, end) ==
    CASE label = "account_number" ->
             SubSeq(text, AccountGroupStart(text, i), end - 1)
      [] label = "password" ->
             SubSeq(text, PasswordGroupStart(text, i), end - 1)
      [] OTHER -> SubSeq(text, i, end - 1)

\* the mask function of a pattern
MaskFn(label, m) ==
    CASE label = "credit_card"    -> _mask_card(m)
      [] label = "ssn"            -> _mask_ssn(m)
      [] label = "phone"          -> _mask_phone(m)
      [] label = "email"          -> _mask_email(m)
      [] label = "account_number" -> MaskAccountMatch(m)
      [] label = "password"       -> MaskPasswordMatch(m)

\* pattern.findall(text): the non-overlapping matches from left to right
RECURSIVE FindAll(_, _, _)

\* findall at pos, where the pattern matches up to end (0: no match at pos)
FindAllAt(label, text, pos, end) ==
    IF end # 0
    THEN <<MatchGroup(label, text, pos, end)>> \o FindAll(label, text, end)
    ELSE FindAll(label, text, pos + 1)

FindAll(label, text, pos) ==
    IF pos > Len(text) THEN <<>>
    ELSE FindAllAt(label, text, pos, MatchEnd(label, text, pos))

\* pattern.sub(lambda m: mask_fn(m.group()), text)
RECURSIVE ReSub(_, _, _)

\* sub at pos, where the pattern matches up to end (0: no match at pos)
ReSubAt(label, text, pos, end) ==
    IF end # 0
    THEN MaskFn(label, SubSeq(text, pos, end - 1)) \o ReSub(label, text, end)
    ELSE <<text[pos]>> \o ReSub(label, text, pos + 1)

ReSub(label, text, pos) ==
    IF pos > Len(text) THEN <<>>
    ELSE ReSubAt(label, text, pos, MatchEnd(label, text, pos))

\* the loop of PIIMasker.mask over PATTERNS[n..]: state is the text so far
\* and the (label, matches) pairs recorded so far
RECURSIVE MaskLoop(_, _, _)

\* the body of the loop for pattern n, whose findall gave matches
MaskStep(n, label, masked_text, pii_found, matches) ==
    IF matches = <<>>
    THEN MaskLoop(n + 1, masked_text, pii_found)
    ELSE MaskLoop(n + 1, ReSub(label, masked_text, 1),
                  Append(pii_found, [label |-> label, matches |-> matches]))

MaskLoop(n, masked_text, pii_found) ==
    IF n > Len(PATTERNS) THEN [masked |-> masked_text, pii_found |-> pii_found]
    ELSE MaskStep(n, PATTERNS[n], masked_text, pii_found,
                  FindAll(PATTERNS[n], masked_text, 1))

\* the PIIResult of a text and the outcome of the loop
PIIResult(text, r) ==
    [original           |-> text,
     masked             |-> r.masked,
     pii_found          |-> r.pii_found,
     has_sensitive_info |-> r.pii_found # <<>>]

\* PIIMasker.mask / mask_message
mask(text) == PIIResult(text, MaskLoop(1, text, <<>>))

\* ------------------------------------------------------------------------
\* Tables of the classifiers (generated from the source lists)
\* ------------------------------------------------------------------------

\* IntentClassifier.FETCH_ALL_PHRASES, in declaration order
FETCH_ALL_PHRASES == <<
    <<"a", "n", "a", "l", "y", "s", "e">>,
    <<"a", "n", "a", "l", "y", "z", "e">>,
    <<"a", "n", "a", "l", "y", "s", "i", "s">>,
    <<"p", "e", "r", "f", "o", "r", "m", "a", "n", "c", "e">>,
    <<"o", "v", "e", "r", "v", "i", "e", "w">>,
    <<"s", "u", "m", "m", "a", "r", "y">>,
    <<"r", "e", "p", "o", "r", "t">>,
    <<"h", "o", "w", " ", "a", "m", " ", "i", " ", "d", "o", "i", "n", "g">>,
    <<"h", "o", "w", " ", "i", " ", "a", "m", " ", "d", "o", "i", "n", "g">>,
    <<"h", "o", "w", " ", "a", "r", "e", " ", "m", "y", " ", "f", "i", "n", "a", "n", "c", "e", "s">>,
    <<"f", "i", "n", "a", "n", "c", "i", "a", "l", " ", "h", "e", "a", "l", "t", "h">>,
    <<"f", "i", "n", "a", "n", "c", "i", "a", "l", " ", "s", "t", "a", "t", "u", "s">>,
    <<"f", "i", "n", "a", "n", "c", "i", "a", "l", " ", "s", "i", "t", "u", "a", "t", "i", "o", "n">>,
    <<"g", "i", "v", "e", " ", "m", "e", " ", "a", " ", "s", "u", "m", "m", "a", "r", "y">>,
    <<"f", "u", "l", "l", " ", "p", "i", "c", "t", "u", "r", "e">>,
    <<"o", "v", "e", "r", "a", "l", "l">>,
    <<"e", "v", "e", "r", "y", "t", "h", "i", "n", "g">>,
    <<"a", "l", "l", " ", "m", "y">>,
    <<"a", "m", " ", "i", " ", "d", "o", "i", "n", "g", " ", "w", "e", "l", "l">>,
    <<"a", "m", " ", "i", " ", "d", "o", "i", "n", "g", " ", "g", "o", "o", "d">>,
    <<"h", "o", "w", " ", "i", "s", " ", "m", "y">>,
    <<"r", "e", "v", "i", "e", "w", " ", "m", "y">>,
    <<"c", "h", "e", "c", "k", " ", "m", "y", " ", "f", "i", "n", "a", "n", "c", "e", "s">>,
    <<"c", "h", "e", "c", "k", " ", "m", "y", " ", "f", "i", "n", "a", "n", "c", "i", "a", "l">>,
    <<"a", "s", "s", "e", "s", "s">>,
    <<"a", "s", "s", "e", "s", "s", "m", "e", "n", "t">>,
    <<"e", "v", "a", "l", "u", "a", "t", "e">>,
    <<"e", "v", "a", "l", "u", "a", "t", "i", "o", "n">>,
    <<"d", "a", "s", "h", "b", "o", "a", "r", "d">>,
    <<"s", "n", "a", "p", "s", "h", "o", "t">>>>

\* IntentClassifier.MULTI_INTENT_PHRASES, in declaration (dict) order
MULTI_INTENT_PHRASES == <<
    [phrase |-> <<"a", "m", " ", "i", " ", "s", "a", "v", "i", "n", "g", " ", "e", "n", "o", "u", "g", "h">>,
     intents |-> {"transactions", "goals"}],
    [phrase |-> <<"s", "a", "v", "i", "n", "g", " ", "e", "n", "o", "u", "g", "h">>,
     intents |-> {"transactions", "goals"}],
    [phrase |-> <<"w", "h", "a", "t", " ", "s", "h", "o", "u", "l", "d", " ", "i", " ", "f", "o", "c", "u", "s", " ", "o", "n">>,
     intents |-> {"transactions", "goals"}],
    [phrase |-> <<"w", "h", "e", "r", "e", " ", "s", "h", "o", "u", "l", "d", " ", "i", " ", "f", "o", "c", "u", "s">>,
     intents |-> {"transactions", "goals"}],
    [phrase |-> <<"a", "m", " ", "i", " ", "o", "n", " ", "t", "r", "a", "c", "k">>,
     intents |-> {"transactions", "goals"}],
    [phrase |-> <<"h", "o", "w", " ", "c", "l", "o", "s", "e", " ", "a", "m", " ", "i">>,
     intents |-> {"transactions", "goals"}],
    [phrase |-> <<"c", "a", "n", " ", "i", " ", "a", "f", "f", "o", "r", "d">>,
     intents |-> {"transactions", "goals"}],
    [phrase |-> <<"a", "f", "f", "o", "r", "d">>,
     intents |-> {"transactions", "goals"}],
    [phrase |-> <<"r", "e", "a", "c", "h", " ", "m", "y", " ", "g", "o", "a", "l">>,
     intents |-> {"transactions", "goals"}],
    [phrase |-> <<"m", "e", "e", "t", " ", "m", "y", " ", "g", "o", "a", "l">>,
     intents |-> {"transactions", "goals"}],
    [phrase |-> <<"a", "c", "h", "i", "e", "v", "e", " ", "m", "y", " ", "g", "o", "a", "l">>,
     intents |-> {"transactions", "goals"}],
    [phrase |-> <<"b", "u", "d", "g", "e", "t", " ", "v", "s">>,
     intents |-> {"transactions", "goals"}],
    [phrase |-> <<"u", "p", "c", "o", "m", "i", "n", "g", " ", "g", "o", "a", "l", "s">>,
     intents |-> {"goals", "reminders"}],
    [phrase |-> <<"g", "o", "a", "l", " ", "d", "e", "a", "d", "l", "i", "n", "e", "s">>,
     intents |-> {"goals", "reminders"}],
    [phrase |-> <<"p", "e", "n", "d", "i", "n", "g", " ", "b", "i", "l", "l", "s">>,
     intents |-> {"transactions", "reminders"}],
    [phrase |-> <<"b", "i", "l", "l", "s", " ", "a", "n", "d", " ", "e", "x", "p", "e", "n", "s", "e", "s">>,
     intents |-> {"transactions", "reminders"}],
    [phrase |-> <<"o", "v", "e", "r", "d", "u", "e", " ", "p", "a", "y", "m", "e", "n", "t", "s">>,
     intents |-> {"transactions", "reminders"}]>>

\* IntentClassifier.TIME_PATTERNS, in declaration (dict) order; days is None
\* for the patterns flagged unbounded
TIME_PATTERNS == <<
    [pattern |-> <<"t", "o", "d", "a", "y">>, unbounded |-> FALSE, days |-> 0],
    [pattern |-> <<"y", "e", "s", "t", "e", "r", "d", "a", "y">>, unbounded |-> FALSE, days |-> 1],
    [pattern |-> <<"t", "h", "i", "s", " ", "w", "e", "e", "k">>, unbounded |-> FALSE, days |-> 7],
    [pattern |-> <<"l", "a", "s", "t", " ", "w", "e", "e", "k">>, unbounded |-> FALSE, days |-> 14],
    [pattern |-> <<"t", "h", "i", "s", " ", "m", "o", "n", "t", "h">>, unbounded |-> FALSE, days |-> 30],
    [pattern |-> <<"l", "a", "s", "t", " ", "m", "o", "n", "t", "h">>, unbounded |-> FALSE, days |-> 60],
    [pattern |-> <<"t", "h", "i", "s", " ", "q", "u", "a", "r", "t", "e", "r">>, unbounded |-> FALSE, days |-> 90],
    [pattern |-> <<"l", "a", "s", "t", " ", "q", "u", "a", "r", "t", "e", "r">>, unbounded |-> FALSE, days |-> 180],
    [pattern |-> <<"t", "h", "i", "s", " ", "y", "e", "a", "r">>, unbounded |-> FALSE, days |-> 365],
    [pattern |-> <<"l", "a", "s", "t", " ", "y", "e", "a", "r">>, unbounded |-> FALSE, days |-> 730],
    [pattern |-> <<"a", "l", "l">>, unbounded |-> TRUE, days |-> 0],
    [pattern |-> <<"f", "o", "r", "e", "v", "e", "r">>, unbounded |-> TRUE, days |-> 0]>>

\* IntentClassifier.INTENT_KEYWORDS["transactions"]: (keyword, weight) with the
\* weight literal in tenths (3.0 is 30)
KEYWORDS_transactions == <<
    [keyword |-> <<"h", "o", "w", " ", "m", "u", "c", "h", " ", "d", "i", "d", " ", "i", " ", "s", "p", "e", "n", "d">>, weight |-> 30],
    [keyword |-> <<"t", "r", "a", "n", "s", "a", "c", "t", "i", "o", "n", " ", "h", "i", "s", "t", "o", "r", "y">>, weight |-> 30],
    [keyword |-> <<"a", "c", "c", "o", "u", "n", "t", " ", "b", "a", "l", "a", "n", "c", "e">>, weight |-> 30],
    [keyword |-> <<"p", "a", "y", "m", "e", "n", "t", " ", "h", "i", "s", "t", "o", "r", "y">>, weight |-> 30],
    [keyword |-> <<"s", "h", "o", "w", " ", "m", "e", " ", "m", "y", " ", "e", "x", "p", "e", "n", "s", "e", "s">>, weight |-> 30],
    [keyword |-> <<"r", "e", "c", "e", "n", "t", " ", "t", "r", "a", "n", "s", "a", "c", "t", "i", "o", "n", "s">>, weight |-> 30],
    [keyword |-> <<"t", "o", "t", "a", "l", " ", "s", "p", "e", "n", "d", "i", "n", "g">>, weight |-> 25],
    [keyword |-> <<"t", "o", "t", "a", "l", " ", "e", "x", "p", "e", "n", "s", "e", "s">>, weight |-> 25],
    [keyword |-> <<"h", "o", "w", " ", "m", "u", "c", "h", " ", "h", "a", "v", "e", " ", "i">>, weight |-> 25],
    [keyword |-> <<"w", "h", "a", "t", " ", "d", "i", "d", " ", "i", " ", "s", "p", "e", "n", "d">>, weight |-> 25],
    [keyword |-> <<"m", "o", "n", "e", "y", " ", "s", "p", "e", "n", "t">>, weight |-> 20],
    [keyword |-> <<"c", "a", "s", "h", " ", "f", "l", "o", "w">>, weight |-> 20],
    [keyword |-> <<"t", "r", "a", "n", "s", "a", "c", "t", "i", "o", "n">>, weight |-> 15],
    [keyword |-> <<"t", "r", "a", "n", "s", "a", "c", "t", "i", "o", "n", "s">>, weight |-> 15],
    [keyword |-> <<"e", "x", "p", "e", "n", "s", "e">>, weight |-> 15],
    [keyword |-> <<"e", "x", "p", "e", "n", "s", "e", "s">>, weight |-> 15],
    [keyword |-> <<"s", "p", "e", "n", "d", "i", "n", "g">>, weight |-> 15],
    [keyword |-> <<"s", "p", "e", "n", "t">>, weight |-> 12],
    [keyword |-> <<"i", "n", "c", "o", "m", "e">>, weight |-> 15],
    [keyword |-> <<"p", "a", "y", "m", "e", "n", "t">>, weight |-> 12],
    [keyword |-> <<"p", "a", "y", "m", "e", "n", "t", "s">>, weight |-> 12],
    [keyword |-> <<"r", "e", "c", "e", "i", "p", "t">>, weight |-> 12],
    [keyword |-> <<"r", "e", "c", "e", "i", "p", "t", "s">>, weight |-> 12],
    [keyword |-> <<"c", "h", "a", "r", "g", "e">>, weight |-> 10],
    [keyword |-> <<"c", "h", "a", "r", "g", "e", "s">>, weight |-> 10],
    [keyword |-> <<"d", "e", "b", "i", "t">>, weight |-> 12],
    [keyword |-> <<"c", "r", "e", "d", "i", "t">>, weight |-> 10],
    [keyword |-> <<"t", "r", "a", "n", "s", "f", "e", "r">>, weight |-> 12],
    [keyword |-> <<"b", "a", "l", "a", "n", "c", "e">>, weight |-> 12],
    [keyword |-> <<"p", "u", "r", "c", "h", "a", "s", "e">>, weight |-> 12],
    [keyword |-> <<"p", "u", "r", "c", "h", "a", "s", "e", "s">>, weight |-> 12],
    [keyword |-> <<"b", "o", "u", "g", "h", "t">>, weight |-> 10],
    [keyword |-> <<"b", "u", "y">>, weight |-> 8],
    [keyword |-> <<"p", "a", "i", "d">>, weight |-> 10],
    [keyword |-> <<"c", "o", "s", "t">>, weight |-> 8],
    [keyword |-> <<"c", "a", "s", "h">>, weight |-> 8],
    [keyword |-> <<"c", "a", "r", "d">>, weight |-> 8],
    [keyword |-> <<"t", "o", "t", "a", "l">>, weight |-> 8],
    [keyword |-> <<"s", "u", "m">>, weight |-> 8],
    [keyword |-> <<"a", "c", "c", "o", "u", "n", "t">>, weight |-> 8],
    [keyword |-> <<"h", "i", "s", "t", "o", "r", "y">>, weight |-> 8],
    [keyword |-> <<"m", "o", "n", "e", "y">>, weight |-> 7]>>

\* IntentClassifier.INTENT_KEYWORDS["goals"]: (keyword, weight) with the
\* weight in tenths (3.0 is 30)
KEYWORDS_goals == <<
    [keyword |-> <<"s", "a", "v", "i", "n", "g", "s", " ", "g", "o", "a", "l">>, weight |-> 30],
    [keyword |-> <<"f", "i", "n", "a", "n", "c", "i", "a", "l", " ", "g", "o", "a", "l">>, weight |-> 30],
    [keyword |-> <<"s", "a", "v", "i", "n", "g", " ", "f", "o", "r">>, weight |-> 25],
    [keyword |-> <<"h", "o", "w", " ", "m", "u", "c", "h", " ", "h", "a", "v", "e", " ", "i", " ", "s", "a", "v", "e", "d">>, weight |-> 25],
    [keyword |-> <<"g", "o", "a", "l", " ", "p", "r", "o", "g", "r", "e", "s", "s">>, weight |-> 25],
    [keyword |-> <<"s", "a", "v", "i", "n", "g", "s", " ", "t", "a", "r", "g", "e", "t">>, weight |-> 25],
    [keyword |-> <<"b", "u", "d", "g", "e", "t", " ", "p", "l", "a", "n">>, weight |-> 20],
    [keyword |-> <<"f", "i", "n", "a", "n", "c", "i", "a", "l", " ", "p", "l", "a", "n">>, weight |-> 20],
    [keyword |-> <<"a", "m", " ", "i", " ", "o", "n", " ", "t", "r", "a", "c", "k">>, weight |-> 20],
    [keyword |-> <<"h", "o", "w", " ", "c", "l", "o", "s", "e", " ", "a", "m", " ", "i">>, weight |-> 20],
    [keyword |-> <<"r", "e", "a", "c", "h", " ", "m", "y", " ", "g", "o", "a", "l">>, weight |-> 20],
    [keyword |-> <<"g", "o", "a", "l">>, weight |-> 15],
    [keyword |-> <<"g", "o", "a", "l", "s">>, weight |-> 15],
    [keyword |-> <<"t", "a", "r", "g", "e", "t">>, weight |-> 12],
    [keyword |-> <<"s", "a", "v", "e">>, weight |-> 12],
    [keyword |-> <<"s", "a", "v", "i", "n", "g">>, weight |-> 12],
    [keyword |-> <<"s", "a", "v", "i", "n", "g", "s">>, weight |-> 12],
    [keyword |-> <<"m", "i", "l", "e", "s", "t", "o", "n", "e">>, weight |-> 15],
    [keyword |-> <<"o", "b", "j", "e", "c", "t", "i", "v", "e">>, weight |-> 12],
    [keyword |-> <<"a", "c", "h", "i", "e", "v", "e", "m", "e", "n", "t">>, weight |-> 10],
    [keyword |-> <<"a", "c", "c", "u", "m", "u", "l", "a", "t", "e">>, weight |-> 12],
    [keyword |-> <<"f", "u", "n", "d">>, weight |-> 10],
    [keyword |-> <<"b", "u", "d", "g", "e", "t">>, weight |-> 12],
    [keyword |-> <<"p", "l", "a", "n">>, weight |-> 8],
    [keyword |-> <<"p", "r", "o", "g", "r", "e", "s", "s">>, weight |-> 10],
    [keyword |-> <<"t", "r", "a", "c", "k">>, weight |-> 8],
    [keyword |-> <<"i", "n", "v", "e", "s", "t">>, weight |-> 8],
    [keyword |-> <<"i", "n", "v", "e", "s", "t", "m", "e", "n", "t">>, weight |-> 8],
    [keyword |-> <<"r", "e", "t", "i", "r", "e">>, weight |-> 10],
    [keyword |-> <<"r", "e", "t", "i", "r", "e", "m", "e", "n", "t">>, weight |-> 12],
    [keyword |-> <<"e", "m", "e", "r", "g", "e", "n", "c", "y", " ", "f", "u", "n", "d">>, weight |-> 20]>>

\* IntentClassifier.INTENT_KEYWORDS["reminders"]: (keyword, weight) with the
\* weight in tenths (3.0 is 30)
KEYWORDS_reminders == <<
    [keyword |-> <<"s", "e", "t", " ", "a", " ", "r", "e", "m", "i", "n", "d", "e", "r">>, weight |-> 30],
    [keyword |-> <<"s", "e", "t", " ", "r", "e", "m", "i", "n", "d", "e", "r">>, weight |-> 30],
    [keyword |-> <<"r", "e", "m", "i", "n", "d", " ", "m", "e">>, weight |-> 30],
    [keyword |-> <<"c", "r", "e", "a", "t", "e", " ", "a", "n", " ", "a", "l", "e", "r", "t">>, weight |-> 30],
    [keyword |-> <<"s", "e", "n", "d", " ", "m", "e", " ", "a", " ", "n", "o", "t", "i", "f", "i", "c", "a", "t", "i", "o", "n">>, weight |-> 30],
    [keyword |-> <<"p", "a", "y", "m", "e", "n", "t", " ", "d", "u", "e">>, weight |-> 25],
    [keyword |-> <<"b", "i", "l", "l", " ", "d", "u", "e">>, weight |-> 25],
    [keyword |-> <<"u", "p", "c", "o", "m", "i", "n", "g", " ", "p", "a", "y", "m", "e", "n", "t">>, weight |-> 25],
    [keyword |-> <<"p", "a", "y", "m", "e", "n", "t", " ", "r", "e", "m", "i", "n", "d", "e", "r">>, weight |-> 30],
    [keyword |-> <<"d", "u", "e", " ", "d", "a", "t", "e">>, weight |-> 20],
    [keyword |-> <<"d", "o", "n", "'", "t", " ", "l", "e", "t", " ", "m", "e", " ", "f", "o", "r", "g", "e", "t">>, weight |-> 20],
    [keyword |-> <<"n", "o", "t", "i", "f", "y", " ", "m", "e">>, weight |-> 20],
    [keyword |-> <<"a", "l", "e", "r", "t", " ", "m", "e">>, weight |-> 20],
    [keyword |-> <<"r", "e", "m", "i", "n", "d", "e", "r">>, weight |-> 20],
    [keyword |-> <<"r", "e", "m", "i", "n", "d", "e", "r", "s">>, weight |-> 20],
    [keyword |-> <<"r", "e", "m", "i", "n", "d">>, weight |-> 15],
    [keyword |-> <<"a", "l", "e", "r", "t">>, weight |-> 12],
    [keyword |-> <<"a", "l", "e", "r", "t", "s">>, weight |-> 12],
    [keyword |-> <<"n", "o", "t", "i", "f", "i", "c", "a", "t", "i", "o", "n">>, weight |-> 15],
    [keyword |-> <<"n", "o", "t", "i", "f", "i", "c", "a", "t", "i", "o", "n", "s">>, weight |-> 15],
    [keyword |-> <<"n", "o", "t", "i", "f", "y">>, weight |-> 12],
    [keyword |-> <<"s", "c", "h", "e", "d", "u", "l", "e">>, weight |-> 10],
    [keyword |-> <<"a", "l", "a", "r", "m">>, weight |-> 12],
    [keyword |-> <<"u", "p", "c", "o", "m", "i", "n", "g">>, weight |-> 10],
    [keyword |-> <<"d", "u", "e">>, weight |-> 8],
    [keyword |-> <<"o", "v", "e", "r", "d", "u", "e">>, weight |-> 12],
    [keyword |-> <<"r", "e", "c", "u", "r", "r", "i", "n", "g">>, weight |-> 10],
    [keyword |-> <<"s", "u", "b", "s", "c", "r", "i", "p", "t", "i", "o", "n">>, weight |-> 10]>>

\* the intents of INTENT_KEYWORDS in declaration (dict) order
INTENT_ORDER == <<"transactions", "goals", "reminders">>

INTENT_KEYWORDS(intent) ==
    CASE intent = "transactions" -> KEYWORDS_transactions
      [] intent = "goals" -> KEYWORDS_goals
      [] intent = "reminders" -> KEYWORDS_reminders

\* FastIntentClassifier.INTENTS["transactions"]["keywords"]
FAST_KEYWORDS_transactions == <<
    <<"t", "r", "a", "n", "s", "a", "c", "t", "i", "o", "n">>,
    <<"e", "x", "p", "e", "n", "s", "e">>,
    <<"i", "n", "c", "o", "m", "e">>,
    <<"s", "p", "e", "n", "d", "i", "n", "g">>,
    <<"s", "p", "e", "n", "t">>,
    <<"c", "o", "s", "t">>,
    <<"p", "r", "i", "c", "e">>,
    <<"p", "a", "i", "d">>,
    <<"p", "a", "y", "m", "e", "n", "t">>,
    <<"c", "h", "a", "r", "g", "e">>,
    <<"r", "e", "c", "e", "i", "p", "t">>,
    <<"m", "o", "n", "e", "y">>,
    <<"c", "a", "s", "h">>,
    <<"c", "a", "r", "d">>,
    <<"t", "r", "a", "n", "s", "f", "e", "r">>,
    <<"b", "u", "y">>,
    <<"p", "u", "r", "c", "h", "a", "s", "e">>,
    <<"h", "o", "w", " ", "m", "u", "c", "h">>,
    <<"t", "o", "t", "a", "l">>,
    <<"s", "u", "m">>,
    <<"b", "a", "l", "a", "n", "c", "e">>,
    <<"a", "c", "c", "o", "u", "n", "t">>,
    <<"h", "i", "s", "t", "o", "r", "y">>,
    <<"c", "a", "t", "e", "g", "o", "r", "y">>,
    <<"m", "e", "r", "c", "h", "a", "n", "t">>,
    <<"d", "a", "t", "e">>,
    <<"a", "m", "o", "u", "n", "t">>,
    <<"l", "a", "s", "t">>,
    <<"r", "e", "c", "e", "n", "t">>,
    <<"p", "r", "e", "v", "i", "o", "u", "s">>,
    <<"w", "h", "e", "n">>,
    <<"w", "h", "e", "r", "e">>,
    <<"w", "h", "a", "t">>>>

\* FastIntentClassifier.INTENTS["goals"]["keywords"]
FAST_KEYWORDS_goals == <<
    <<"g", "o", "a", "l">>,
    <<"t", "a", "r", "g", "e", "t">>,
    <<"s", "a", "v", "e">>,
    <<"s", "a", "v", "i", "n", "g">>,
    <<"s", "a", "v", "i", "n", "g", "s", " ", "t", "a", "r", "g", "e", "t">>,
    <<"m", "i", "l", "e", "s", "t", "o", "n", "e">>,
    <<"o", "b", "j", "e", "c", "t", "i", "v", "e">>,
    <<"a", "c", "h", "i", "e", "v", "e", "m", "e", "n", "t">>,
    <<"r", "e", "a", "c", "h">>,
    <<"a", "c", "c", "u", "m", "u", "l", "a", "t", "e">>,
    <<"f", "u", "n", "d">>,
    <<"b", "u", "d", "g", "e", "t">>,
    <<"p", "l", "a", "n">>,
    <<"p", "r", "o", "g", "r", "e", "s", "s">>,
    <<"t", "r", "a", "c", "k">>,
    <<"h", "o", "w", " ", "l", "o", "n", "g">>,
    <<"w", "i", "l", "l", " ", "i">>,
    <<"c", "a", "n", " ", "i">>,
    <<"s", "h", "o", "u", "l", "d", " ", "i">>>>

\* FastIntentClassifier.INTENTS["reminders"]["keywords"]
FAST_KEYWORDS_reminders == <<
    <<"r", "e", "m", "i", "n", "d", "e", "r">>,
    <<"r", "e", "m", "i", "n", "d">>,
    <<"a", "l", "e", "r", "t">>,
    <<"n", "o", "t", "i", "f", "i", "c", "a", "t", "i", "o", "n">>,
    <<"n", "o", "t", "i", "f", "y">>,
    <<"s", "c", "h", "e", "d", "u", "l", "e">>,
    <<"s", "e", "t">>,
    <<"a", "l", "a", "r", "m">>,
    <<"u", "p", "c", "o", "m", "i", "n", "g">>,
    <<"d", "u", "e">>,
    <<"p", "a", "y", "m", "e", "n", "t", " ", "d", "u", "e">>,
    <<"w", "h", "e", "n">>,
    <<"t", "e", "l", "l", " ", "m", "e">>,
    <<"n", "o", "t", "i", "f", "y">>,
    <<"r", "e", "m", "e", "m", "b", "e", "r">>>>

\* FastIntentClassifier.INTENTS["general_advice"]["keywords"]
FAST_KEYWORDS_general_advice == <<
    <<"h", "o", "w", " ", "t", "o">>,
    <<"h", "o", "w", " ", "d", "o">>,
    <<"w", "h", "a", "t", " ", "i", "s">>,
    <<"w", "h", "a", "t", " ", "a", "r", "e">>,
    <<"w", "h", "y">>,
    <<"e", "x", "p", "l", "a", "i", "n">>,
    <<"h", "e", "l", "p">>,
    <<"b", "e", "s", "t", " ", "w", "a", "y">>,
    <<"s", "h", "o", "u", "l", "d", " ", "i">>,
    <<"c", "a", "n", " ", "i">>,
    <<"t", "i", "p", "s">>,
    <<"a", "d", "v", "i", "c", "e">>,
    <<"g", "u", "i", "d", "e">>,
    <<"s", "t", "r", "a", "t", "e", "g", "y">>,
    <<"p", "l", "a", "n">>,
    <<"b", "u", "d", "g", "e", "t">>,
    <<"s", "a", "v", "e">>,
    <<"i", "n", "v", "e", "s", "t">>,
    <<"f", "i", "n", "a", "n", "c", "i", "a", "l">>,
    <<"m", "o", "n", "e", "y">>,
    <<"r", "e", "t", "i", "r", "e", "m", "e", "n", "t">>,
    <<"e", "m", "e", "r", "g", "e", "n", "c", "y">>,
    <<"f", "u", "n", "d">>,
    <<"d", "e", "b", "t">>,
    <<"c", "r", "e", "d", "i", "t">>>>

\* FastIntentClassifier.INTENTS in declaration (dict) order
FAST_INTENTS == <<
    [name |-> "transactions", keywords |-> FAST_KEYWORDS_transactions, requires_auth |-> TRUE],
    [name |-> "goals", keywords |-> FAST_KEYWORDS_goals, requires_auth |-> TRUE],
    [name |-> "reminders", keywords |-> FAST_KEYWORDS_reminders, requires_auth |-> FALSE],
    [name |-> "general_advice", keywords |-> FAST_KEYWORDS_general_advice, requires_auth |-> FALSE]>>

\* ------------------------------------------------------------------------
\* Intent classifier (ai/ml/intent_classifier.py)
\* ------------------------------------------------------------------------

\* any(phrase in q for phrase in phrases)
AnyIn(phrases, q) == \E n \in 1..Len(phrases) : Contains(q, phrases[n])

\* the fetch plan with the flags of the intents in the set on
FetchFlags(intents) ==
    [needs_transactions |-> "transactions" \in intents,
     needs_goals        |-> "goals" \in intents,
     needs_reminders    |-> "reminders" \in intents]

\* ---- Python floats (IEEE 754 binary64, round to nearest, ties to even) ----
\* A float is held as its exact value in units of 2^-62, an integer written
\* as three limbs <<hi, mid, lo>> of 30 bits.  The classifier's floats lie
\* between 2^-9 and 2^20, so each of them is a whole number of such units.

Limb == 2^30

BigZero == <<0, 0, 0>>

\* the float 1.0
DoubleOne == <<4, 0, 0>>

BigLess(x, y) ==
    \/ x[1] < y[1]
    \/ x[1] = y[1] /\ x[2] < y[2]
    \/ x[1] = y[1] /\ x[2] = y[2] /\ x[3] < y[3]

BigAdd(x, y) ==
    LET lo  == x[3] + y[3]
        mid == x[2] + y[2] + (lo \div Limb)
    IN  <<x[1] + y[1] + (mid \div Limb), mid % Limb, lo % Limb>>

\* x - y for x >= y
BigSub(x, y) ==
    LET lo  == x[3] - y[3]
        mid == x[2] - y[2] - (IF lo < 0 THEN 1 ELSE 0)
    IN  <<x[1] - y[1] - (IF mid < 0 THEN 1 ELSE 0),
          IF mid < 0 THEN mid + Limb ELSE mid,
          IF lo < 0 THEN lo + Limb ELSE lo>>

BigDouble(x) == BigAdd(x, x)

\* the number of bits of n, 0 <= n < 2^30
BitLength(n) ==
    CHOOSE k \in 0..30 : n < 2^k /\ (k = 0 \/ n >= 2^(k - 1))

BigBitLength(x) ==
    IF x[1] > 0 THEN 60 + BitLength(x[1])
    ELSE IF x[2] > 0 THEN 30 + BitLength(x[2])
    ELSE BitLength(x[3])

\* the float nearest to the exact value x plus, when sticky, a positive amount
\* below one unit: x keeps its 53 leading bits, the bits dropped decide the
\* direction, ties go to the even significand
RoundToDouble(x, sticky) ==
    LET d    == BigBitLength(x) - 53
        unit == 2^d
        rest == x[3] % unit
        kept == <<x[1], x[2], x[3] - rest>>
        odd  == (x[3] \div unit) % 2 = 1
    IN  IF d <= 0 THEN x
        ELSE IF 2 * rest > unit \/ (2 * rest = unit /\ (sticky \/ odd))
        THEN BigAdd(kept, <<0, 0, unit>>)
        ELSE kept

\* one step of the long division of r by b (r < b): the next binary digit of
\* the quotient joins acc, the remainder is doubled and reduced
DivStep(r2, b, acc2) ==
    IF BigLess(r2, b) THEN [r |-> r2, acc |-> acc2]
    ELSE [r |-> BigSub(r2, b), acc |-> BigAdd(acc2, <<0, 0, 1>>)]

\* k steps of the long division from the remainder and digits of st; the
\* first half of the steps is bound as a value before the second half starts
RECURSIVE DivSteps(_, _, _)
DivSteps(st, b, k) ==
    IF k = 0 THEN st
    ELSE IF k = 1 THEN DivStep(BigDouble(st.r), b, BigDouble(st.acc))
    ELSE CHOOSE last \in {DivSteps(half, b, k - (k \div 2)) :
                             half \in {DivSteps(st, b, k \div 2)}} : TRUE

\* the first 62 binary digits of r / b after the point (r < b), and whether
\* they are all of it
FractionBits(r, b) ==
    LET st == DivSteps([r |-> r, acc |-> BigZero], b, 62)
    IN  [bits |-> st.acc, exact |-> st.r = BigZero]

\* the float nearest to whole + r / b (r < b), f the digits of r / b
DoubleRatio(whole, f) ==
    RoundToDouble(BigAdd(<<4 * whole, 0, 0>>, f.bits), ~f.exact)

\* the float a literal of so many tenths denotes (0.7, 1.2, 3.0)
Literal(tenths) ==
    DoubleRatio(tenths \div 10,
                FractionBits(<<0, 0, tenths % 10>>, <<0, 0, 10>>))

\* x + y
DoubleAdd(x, y) == RoundToDouble(BigAdd(x, y), FALSE)

\* x / y for 0 <= x <= y, 0 < y
DoubleDiv(x, y) ==
    IF x = BigZero THEN BigZero
    ELSE IF x = y THEN DoubleOne
    ELSE DoubleRatio(0, FractionBits(x, y))

\* the weights written in INTENT_KEYWORDS, in tenths
WeightLiterals == {7, 8, 10, 12, 15, 20, 25, 30}

\* the floats of the weight literals
WeightFloat == [tenths \in WeightLiterals |-> Literal(tenths)]

\* CONFIDENCE_THRESHOLD = 0.4
CONFIDENCE_THRESHOLD == Literal(4)

\* ten times x
BigTimes10(x) == BigAdd(BigDouble(BigDouble(BigDouble(x))), BigDouble(x))

\* round(x, 4) for a float x <= 1, in ten-thousandths: the decimal of four
\* places nearest to the exact value of x, ties to even
Round4(x) ==
    LET y     == BigTimes10(BigTimes10(BigTimes10(BigTimes10(x))))
        whole == y[1] \div 4
        frac  == <<y[1] % 4, y[2], y[3]>>
        half  == <<2, 0, 0>>
    IN  IF BigLess(half, frac) \/ (frac = half /\ whole % 2 = 1)
        THEN whole + 1 ELSE whole

\* intent_scores[intent] += weight for the matched entries of the table, in
\* table order, starting from acc
RECURSIVE ScoreFrom(_, _, _)
ScoreFrom(table, hits, acc) ==
    IF hits = {} THEN acc
    ELSE LET n == CHOOSE h \in hits : \A g \in hits : h <= g
         IN  ScoreFrom(table, hits \ {n}, DoubleAdd(acc, WeightFloat[table[n].weight]))

\* intent_scores[intent] after the scoring loop
IntentScore(intent, q) ==
    ScoreFrom(INTENT_KEYWORDS(intent),
              {n \in 1..Len(INTENT_KEYWORDS(intent)) :
                  Contains(q, INTENT_KEYWORDS(intent)[n].keyword)},
              BigZero)

\* the entries of the three tables in the order the scoring loop visits them
ALL_KEYWORDS ==
    KEYWORDS_transactions \o KEYWORDS_goals \o KEYWORDS_reminders

\* found_keywords after the scoring loop: each matched keyword once, in the
\* order of the first table entry that holds it
found_keywords(q) ==
    LET first == {n \in 1..Len(ALL_KEYWORDS) :
                     /\ Contains(q, ALL_KEYWORDS[n].keyword)
                     /\ \A m \in 1..(n - 1) :
                            ALL_KEYWORDS[m].keyword # ALL_KEYWORDS[n].keyword}
    IN  [k \in 1..Cardinality(first) |->
            ALL_KEYWORDS[CHOOSE n \in first :
                Cardinality({m \in first : m <= n}) = k].keyword]

\* round(scale * num / den) to the nearest integer, ties to even
RoundRatio(num, den, scale) ==
    LET scaled == num * scale
        quot   == scaled \div den
        rest   == scaled % den
    IN  IF 2 * rest < den THEN quot
        ELSE IF 2 * rest > den THEN quot + 1
        ELSE IF quot % 2 = 0 THEN quot
        ELSE quot + 1

\* sorted(pairs, key=confidence, reverse=True): a stable insertion sort
RECURSIVE SortedDesc(_)
SortedDesc(pairs) ==
    IF Len(pairs) <= 1 THEN pairs
    ELSE LET rest == SortedDesc(Tail(pairs))
             head == pairs[1]
             ahead == {k \in 1..Len(rest) : rest[k].confidence > head.confidence}
             cut  == IF ahead = {} THEN 0
                     ELSE CHOOSE k \in ahead : \A l \in ahead : l <= k
         IN  SubSeq(rest, 1, cut) \o <<head>> \o SubSeq(rest, cut + 1, Len(rest))

\* the result of classify when some keyword matched; normalized is
\* {intent: score / total_score}, in the order of INTENT_ORDER
Classified(found, score, total, normalized) ==
    LET top    == CHOOSE i \in 1..3 :
                      /\ \A j \in 1..3 : ~BigLess(normalized[i], normalized[j])
                      /\ \A j \in 1..(i - 1) : BigLess(normalized[j], normalized[i])
        others == SelectSeq(<<1, 2, 3>>,
                            LAMBDA j : j # top /\ BigLess(BigZero, normalized[j]))
    IN  [primary_intent    |-> IF BigLess(normalized[top], CONFIDENCE_THRESHOLD) THEN "general"
                               ELSE INTENT_ORDER[top],
         confidence        |-> Round4(normalized[top]),
         secondary_intents |-> SortedDesc([k \in 1..Len(others) |->
                                   [intent     |-> INTENT_ORDER[others[k]],
                                    confidence |-> Round4(normalized[others[k]])]]),
         keywords          |-> found,
         scores            |-> score,
         total_score       |-> total,
         normalized        |-> normalized]

\* classify from total_score on: the early return, the normalisation.  Here
\* and below a local of the method is bound as a value (v \in {e}) where the
\* method assigns it, so that it is computed once
ClassifyScores(found, score, total) ==
    IF total = BigZero
    THEN [primary_intent    |-> "general",
          confidence        |-> 5000,
          secondary_intents |-> <<>>,
          keywords          |-> <<>>,
          scores            |-> score,
          total_score       |-> total,
          normalized        |-> <<>>]
    ELSE CHOOSE r \in {Classified(found, score, total, normalized) :
                          normalized \in {[i \in 1..3 |-> DoubleDiv(score[i], total)]}} : TRUE

\* sum(intent_scores.values()): the floats added from the left
SumScores(score) == DoubleAdd(DoubleAdd(score[1], score[2]), score[3])

\* classify from the end of the scoring loop on
ClassifyFrom(found, score) ==
    CHOOSE r \in {ClassifyScores(found, score, total) :
                     total \in {SumScores(score)}} : TRUE

\* classify from the scoring loop on, query_lower given
ClassifyLower(q) ==
    CHOOSE r \in {ClassifyFrom(found_keywords(q), score) :
                     score \in {[i \in 1..Len(INTENT_ORDER) |->
                                   IntentScore(INTENT_ORDER[i], q)]}} : TRUE

\* IntentClassifier.classify: confidences returned are in ten-thousandths
\* (0.5 is 5000)
classify(query) ==
    CHOOSE r \in {ClassifyLower(q) : q \in {StrLower(query)}} : TRUE

\* the last phrase of MULTI_INTENT_PHRASES, in dict order, that q contains
FirstMultiPhrase_Last(q) ==
    LET hits == {n \in 1..Len(MULTI_INTENT_PHRASES) :
                    Contains(q, MULTI_INTENT_PHRASES[n].phrase)}
    IN  IF hits = {} THEN 0 ELSE CHOOSE n \in hits : \A m \in hits : m <= n

\* the first phrase of MULTI_INTENT_PHRASES, in dict order, that q contains
FirstMultiPhrase(q) ==
    LET hits == {n \in 1..Len(MULTI_INTENT_PHRASES) :
                    Contains(q, MULTI_INTENT_PHRASES[n].phrase)}
    IN  IF hits = {} THEN 0 ELSE CHOOSE n \in hits : \A m \in hits : n <= m

\* get_intents_for_fetch with priorities 1 and 2 exchanged
get_intents_for_fetch_MultiFirst(query) ==
    LET q == StrLower(query)
    IN  IF FirstMultiPhrase(q) # 0
        THEN FetchFlags(MULTI_INTENT_PHRASES[FirstMultiPhrase(q)].intents)
        ELSE FetchFlags({"transactions", "goals", "reminders"})

\* priority 3 with every secondary category added, whatever its confidence
FetchFlagsOf_AnySecondary(r) ==
    IF r.primary_intent = "general"
    THEN FetchFlags({"transactions", "goals", "reminders"})
    ELSE FetchFlags({r.primary_intent} \cup
             {r.secondary_intents[k].intent : k \in 1..Len(r.secondary_intents)})

\* priority 3 without the plan of the "general" decision
FetchFlagsOf_GeneralNone(r) ==
    FetchFlags({r.primary_intent} \cup
        {r.secondary_intents[k].intent : k \in
            {k \in 1..Len(r.secondary_intents) :
                r.secondary_intents[k].confidence > 2500}})

\* get_intents_for_fetch, priority 3: the plan of the weighted decision r
FetchFlagsOf(r) ==
    IF r.primary_intent = "general"
    THEN FetchFlags({"transactions", "goals", "reminders"})
    ELSE FetchFlags({r.primary_intent} \cup
             {r.secondary_intents[k].intent : k \in
                 {k \in 1..Len(r.secondary_intents) :
                     r.secondary_intents[k].confidence > 2500}})

\* get_intents_for_fetch from q = query.lower() on
FetchFlagsLower(query, q) ==
    IF AnyIn(FETCH_ALL_PHRASES, q)
    THEN FetchFlags({"transactions", "goals", "reminders"})
    ELSE IF FirstMultiPhrase(q) # 0
    THEN FetchFlags(MULTI_INTENT_PHRASES[FirstMultiPhrase(q)].intents)
    ELSE CHOOSE f \in {FetchFlagsOf(r) : r \in {classify(query)}} : TRUE

\* IntentClassifier.get_intents_for_fetch
get_intents_for_fetch(query) ==
    CHOOSE f \in {FetchFlagsLower(query, q) : q \in {StrLower(query)}} : TRUE

\* IntentClassifier.extract_time_range: the start of the range as the number
\* of days before now, or unbounded (start_date None); the default is 30 days
extract_time_range(query) ==
    LET q    == StrLower(query)
        hits == {n \in 1..Len(TIME_PATTERNS) : Contains(q, TIME_PATTERNS[n].pattern)}
        n    == CHOOSE h \in hits : \A g \in hits : h <= g
    IN  IF hits = {} THEN [unbounded |-> FALSE, days |-> 30]
        ELSE [unbounded |-> TIME_PATTERNS[n].unbounded, days |-> TIME_PATTERNS[n].days]

\* ------------------------------------------------------------------------
\* Fast classifier of the guest path (ai/utils/fast_classifier.py)
\* ------------------------------------------------------------------------

\* len(matched_keywords): how many keywords of the list q contains
FastMatched(keywords, q) ==
    Cardinality({n \in 1..Len(keywords) : Contains(q, keywords[n])})

\* FastIntentClassifier.classify: the confidence of an intent with m matches
\* among its k keywords is min(1, m / max(k, 3)); the first intent of the
\* highest confidence wins, and general_advice when nothing matches
fast_classify(query) ==
    LET q      == StrLower(query)
        m(i)   == FastMatched(FAST_INTENTS[i].keywords, q)
        den(i) == Max(Len(FAST_INTENTS[i].keywords), 3)
        num(i) == Min(m(i), den(i))
        scored == {i \in 1..Len(FAST_INTENTS) : m(i) > 0}
        best   == CHOOSE i \in scored :
                      /\ \A j \in scored : num(j) * den(i) <= num(i) * den(j)
                      /\ \A j \in scored : j < i => num(j) * den(i) < num(i) * den(j)
        chosen == IF scored = {} THEN 4 ELSE best
    IN  [primary_intent |-> FAST_INTENTS[chosen].name,
         requires_auth  |-> FAST_INTENTS[chosen].requires_auth]

\* ------------------------------------------------------------------------
\* Identities
\* ------------------------------------------------------------------------

\* user ids: the first is a 24-hex-digit Mongo id, the second is not
Users == {"507f1f77bcf86cd799439011", "alice"}

\* bson.ObjectId.is_valid(user_id)
ObjectIdIsValid(user_id) == user_id = "507f1f77bcf86cd799439011"

\* a BSON value is tagged with its type: the string "x" and ObjectId("x")
\* are different values, and a query on one does not match the other
BsonStr(s) == [bson |-> "string", value |-> s]

\* bson.ObjectId(user_id)
ObjectId(user_id) == [bson |-> "objectId", value |-> user_id]

\* ------------------------------------------------------------------------
\* LLM settings and provider handles (ai/config.py, ai/llm/init.py)
\* ------------------------------------------------------------------------

\* the values of GROQ_API_KEY and GEMINI_API_KEY in the environment: unset
\* (the default ""), the placeholder of the sample .env, or a real key
GroqKeys == {"", "your-groq-api-key-here", "gsk_live"}
GeminiKeys == {"", "AIza_live"}

\* DEFAULT_LLM: Literal["groq", "gemini"], "groq" unless the environment says
DefaultLlms == {"groq", "gemini"}

\* a handle is the client object of one backend; NoModel is None
NoModel == [backend |-> "none"]
ChatGroq == [backend |-> "groq"]
ChatGoogleGenerativeAI == [backend |-> "gemini"]

\* LLMProvider.__init__
LLMProvider == [_groq_model |-> NoModel, _gemini_model |-> NoModel]

\* get_gemini_llm: the cached handle, or a new one that is then cached; raises
\* when GEMINI_API_KEY is not configured. lp is the LLMProvider before the
\* call, the result carries the LLMProvider after it
get_gemini_llm(settings, lp) ==
    IF lp._gemini_model # NoModel
    THEN [raised |-> FALSE, llm |-> lp._gemini_model, lp |-> lp,
          error |-> <<>>]
    ELSE IF settings.GEMINI_API_KEY = ""
    THEN [raised |-> TRUE, llm |-> NoModel, lp |-> lp,
          error |-> <<"GEMINI_API_KEY not configured in environment">>]
    ELSE [raised |-> FALSE, llm |-> ChatGoogleGenerativeAI,
          lp |-> [lp EXCEPT !._gemini_model = ChatGoogleGenerativeAI],
          error |-> <<>>]

\* get_groq_llm: the cached handle, or a new one; when GROQ_API_KEY is unset
\* or the placeholder it returns what get_gemini_llm returns instead (and if
\* that raises, the except branch calls get_gemini_llm once more)
get_groq_llm(settings, lp) ==
    IF lp._groq_model # NoModel
    THEN [raised |-> FALSE, llm |-> lp._groq_model, lp |-> lp, error |-> <<>>]
    ELSE IF settings.GROQ_API_KEY \in {"", "your-groq-api-key-here"}
    THEN LET first == get_gemini_llm(settings, lp)
         IN  IF first.raised THEN get_gemini_llm(settings, first.lp) ELSE first
    ELSE [raised |-> FALSE, llm |-> ChatGroq,
          lp |-> [lp EXCEPT !._groq_model = ChatGroq], error |-> <<>>]

\* get_llm: by provider name, ValueError for any other name
get_llm(settings, lp, provider) ==
    IF provider = "groq" THEN get_groq_llm(settings, lp)
    ELSE IF provider = "gemini" THEN get_gemini_llm(settings, lp)
    ELSE [raised |-> TRUE, llm |-> NoModel, lp |-> lp,
          error |-> <<"Unknown provider: ", provider>>]

\* get_default_llm
get_default_llm(settings, lp) == get_llm(settings, lp, settings.DEFAULT_LLM)

\* The LLMProvider once the application has started: lifespan builds the
\* orchestrator, whose initialize() calls get_default_llm and so caches the
\* handle it returned; a failure there is logged and the application runs on
lifespan(settings) == get_default_llm(settings, LLMProvider).lp

\* ------------------------------------------------------------------------
\* Fallback messages (ai/llm/fallback.py)
\* ------------------------------------------------------------------------

ErrorTypes == {"default", "network_error", "timeout", "rate_limit"}

FALLBACK_MESSAGES(user_type, error_type) ==
    CASE user_type = "authenticated" /\ error_type = "default" ->
           <<"I'm having trouble processing your request right now. ",
             "Please try again in a moment.">>
      [] user_type = "authenticated" /\ error_type = "network_error" ->
           <<"It seems I'm experiencing connection issues. ",
             "Please check your internet connection and try again.">>
      [] user_type = "authenticated" /\ error_type = "timeout" ->
           <<"Your request is taking longer than expected. ",
             "Please try again with a shorter question.">>
      [] user_type = "authenticated" /\ error_type = "rate_limit" ->
           <<"I'm receiving too many requests. Please wait a moment before trying again.">>
      [] user_type = "guest" /\ error_type = "default" ->
           <<"I'm here to help with general financial questions!", "\n", "\n",
             "For personalized advice based on your actual accounts and spending patterns, ",
             "please sign in.", "\n", "\n",
             "In the meantime, I can help with general financial concepts and best practices.">>
      [] user_type = "guest" /\ error_type = "network_error" ->
           <<"I'm temporarily unavailable right now. ",
             "For personalized guidance, please sign in and try again later.">>
      [] user_type = "guest" /\ error_type = "timeout" ->
           <<"Your request took too long to process. ",
             "Please sign in for more robust financial guidance.">>
      [] user_type = "guest" /\ error_type = "rate_limit" ->
           <<"I'm handling many requests. Please wait a moment before trying again.">>

\* get_fallback_message: an unknown user type reads the guest table, an
\* unknown error type reads the "default" entry
get_fallback_message(user_type, error_type) ==
    LET table == IF user_type \in {"authenticated", "guest"} THEN user_type
                 ELSE "guest"
        entry == IF error_type \in ErrorTypes THEN error_type ELSE "default"
    IN  [text     |-> FALLBACK_MESSAGES(table, entry),
         provider |-> "fallback",
         metadata |-> [error         |-> TRUE,
                       error_type    |-> error_type,
                       response_type |-> user_type,
                       is_fallback   |-> TRUE]]

\* ------------------------------------------------------------------------
\* The financial records and the services that read them (services/*.py)
\* ------------------------------------------------------------------------

\* Dates are day offsets from now: -3 is three days ago, 0 is later today,
\* 5 is in five days. Amounts are whole rupees below 1000, so that the
\* formats ",.2f" and ",.0f" add no thousands separator. The collections hold
\* records of the first user only; they are read-only in every specification.
Categories == {"transactions", "goals", "reminders"}

DB_transactions ==
    <<[userId |-> ObjectId("507f1f77bcf86cd799439011"), date |-> -40,
       type |-> "income", category |-> "salary", amount |-> 900,
       description |-> "pay"],
      [userId |-> ObjectId("507f1f77bcf86cd799439011"), date |-> -12,
       type |-> "expense", category |-> "food", amount |-> 80,
       description |-> "groceries"],
      [userId |-> ObjectId("507f1f77bcf86cd799439011"), date |-> -3,
       type |-> "expense", category |-> "food", amount |-> 120,
       description |-> "lunch"]>>

DB_goals ==
    <<[userId |-> ObjectId("507f1f77bcf86cd799439011"), name |-> "bike",
       status |-> "Active", savedAmount |-> 50, targetAmount |-> 200,
       targetDate |-> 60]>>

DB_reminders ==
    <<[userId |-> ObjectId("507f1f77bcf86cd799439011"), title |-> "rent",
       date |-> 0],
      [userId |-> ObjectId("507f1f77bcf86cd799439011"), title |-> "tax",
       date |-> 20]>>

\* a service call: returned value, or raised
Returned(value) == [raised |-> FALSE, value |-> value]
Raised == [raised |-> TRUE, value |-> <<>>]

\* list.sort by an integer key, stable; descending when desc
RECURSIVE SortByDate(_, _)
SortByDate(docs, desc) ==
    IF Len(docs) <= 1 THEN docs
    ELSE LET rest  == SortByDate(Tail(docs), desc)
             head  == docs[1]
             ahead == {k \in 1..Len(rest) :
                          IF desc THEN rest[k].date > head.date
                          ELSE rest[k].date < head.date}
             cut   == IF ahead = {} THEN 0
                      ELSE CHOOSE k \in ahead : \A l \in ahead : l <= k
         IN  SubSeq(rest, 1, cut) \o <<head>> \o SubSeq(rest, cut + 1, Len(rest))

\* TransactionService.get_transactions_by_user(user_id, start_date, end_date
\* = now, limit): ObjectId(user_id) raises for an id that is not a Mongo id,
\* and so does a failing database (up = FALSE)
get_transactions_by_user(user_id, time_range, limit, up) ==
    IF ~ObjectIdIsValid(user_id) \/ ~up THEN Raised
    ELSE LET mine == SelectSeq(DB_transactions, LAMBDA d :
                         /\ d.userId = ObjectId(user_id)
                         /\ d.date <= 0
                         /\ (time_range.unbounded \/ d.date >= 0 - time_range.days))
             sorted == SortByDate(mine, TRUE)
         IN  Returned(SubSeq(sorted, 1, Min(limit, Len(sorted))))

\* sum of the amounts of the documents of one type
RECURSIVE SumAmount(_, _)
SumAmount(docs, type) ==
    IF docs = <<>> THEN 0
    ELSE (IF docs[1].type = type THEN docs[1].amount ELSE 0)
             + SumAmount(Tail(docs), type)

\* TransactionService.get_monthly_summary(user_id, now.month, now.year); the
\* calendar month is taken to have begun 10 days ago
get_monthly_summary(user_id, up) ==
    IF ~ObjectIdIsValid(user_id) \/ ~up THEN Raised
    ELSE LET mine == SelectSeq(DB_transactions, LAMBDA d :
                         /\ d.userId = ObjectId(user_id)
                         /\ d.date >= 0 - 10 /\ d.date <= 0)
         IN  Returned([totalIncome      |-> SumAmount(mine, "income"),
                       totalExpenses    |-> SumAmount(mine, "expense"),
                       transactionCount |-> Len(mine)])

\* GoalService.get_goals_by_user: sorted by targetDate, enriched with the
\* progress percentage round(saved / target * 100)
get_goals_by_user(user_id, up) ==
    IF ~ObjectIdIsValid(user_id) \/ ~up THEN Raised
    ELSE LET mine == SelectSeq(DB_goals, LAMBDA d : d.userId = ObjectId(user_id))
         IN  Returned([k \in 1..Len(mine) |->
                 [name |-> mine[k].name, status |-> mine[k].status,
                  savedAmount |-> mine[k].savedAmount,
                  targetAmount |-> mine[k].targetAmount,
                  targetDate |-> mine[k].targetDate,
                  progressPercentage |->
                      IF mine[k].targetAmount > 0
                      THEN RoundRatio(mine[k].savedAmount, mine[k].targetAmount, 100)
                      ELSE 0]])

\* sum(g.get(field, 0) for g in goals)
RECURSIVE SumGoals(_, _)
SumGoals(goals, field) ==
    IF Len(goals) = 0 THEN 0
    ELSE goals[1][field] + SumGoals(Tail(goals), field)

\* GoalService.get_goal_summary; overallProgress is
\* round(total_saved / total_target * 100, 2), kept in hundredths of a
\* percent, or the integer 0 when nothing is targeted
get_goal_summary(user_id, up) ==
    LET goals == get_goals_by_user(user_id, up)
        count(status) == Cardinality({k \in 1..Len(goals.value) :
                                          goals.value[k].status = status})
        total_target == SumGoals(goals.value, "targetAmount")
        total_saved  == SumGoals(goals.value, "savedAmount")
    IN  IF goals.raised THEN Raised
        ELSE Returned([totalGoals     |-> Len(goals.value),
                       activeGoals    |-> count("Active"),
                       completedGoals |-> count("Completed"),
                       overallProgress |->
                           IF total_target > 0
                           THEN [is_float |-> TRUE,
                                 hundredths |-> RoundRatio(total_saved, total_target, 10000)]
                           ELSE [is_float |-> FALSE, hundredths |-> 0]])

\* _enrich of reminderService.py
EnrichReminder(d) ==
    [title |-> d.title, date |-> d.date, isToday |-> d.date = 0,
     isOverdue |-> d.date < 0]

\* ReminderService.get_upcoming_reminders(user_id, days)
get_upcoming_reminders(user_id, days, up) ==
    IF ~ObjectIdIsValid(user_id) \/ ~up THEN Raised
    ELSE LET mine == SelectSeq(DB_reminders, LAMBDA d :
                         /\ d.userId = ObjectId(user_id)
                         /\ d.date >= 0 /\ d.date <= days)
             sorted == SortByDate(mine, FALSE)
         IN  Returned([k \in 1..Len(sorted) |-> EnrichReminder(sorted[k])])

\* ReminderService.get_today_reminders
get_today_reminders(user_id, up) ==
    IF ~ObjectIdIsValid(user_id) \/ ~up THEN Raised
    ELSE LET mine == SelectSeq(DB_reminders, LAMBDA d :
                         d.userId = ObjectId(user_id) /\ d.date = 0)
         IN  Returned([k \in 1..Len(mine) |-> EnrichReminder(mine[k])])

\* ReminderService.count_reminders
count_reminders(user_id, up) ==
    IF ~ObjectIdIsValid(user_id) \/ ~up THEN Raised
    ELSE LET mine == SelectSeq(DB_reminders, LAMBDA d : d.userId = ObjectId(user_id))
             n(P(_)) == Cardinality({k \in 1..Len(mine) : P(mine[k])})
         IN  Returned([total    |-> Len(mine),
                       today    |-> n(LAMBDA d : d.date = 0),
                       upcoming |-> n(LAMBDA d : d.date > 0),
                       overdue  |-> n(LAMBDA d : d.date < 0)])

\* ------------------------------------------------------------------------
\* Fetch and prompt assembly of the orchestrator (ai/orchestrator.py)
\* ------------------------------------------------------------------------

\* strftime of a date: the day offset, written out
DateStr(date) == "day " \o ToString(date)

\* _fmt_transactions: one line per transaction, at most 20
_fmt_transactions(transactions) ==
    IF Len(transactions) = 0 THEN <<"No transactions found for this period.">>
    ELSE [k \in 1..Min(20, Len(transactions)) |->
             "  - [" \o DateStr(transactions[k].date) \o "] "
                 \o transactions[k].type \o " | " \o transactions[k].category
                 \o " | Rs" \o ToString(transactions[k].amount) \o ".00 - "
                 \o transactions[k].description]

\* _fmt_goals: one line per goal
_fmt_goals(goals) ==
    IF Len(goals) = 0 THEN <<"No goals found.">>
    ELSE [k \in 1..Len(goals) |->
             "  - " \o goals[k].name \o " | " \o goals[k].status \o " | Rs"
                 \o ToString(goals[k].savedAmount) \o " / Rs"
                 \o ToString(goals[k].targetAmount) \o " ("
                 \o ToString(goals[k].progressPercentage) \o "%) | Due: "
                 \o DateStr(goals[k].targetDate)]

\* _fmt_reminders: one line per reminder, at most 10
_fmt_reminders(reminders) ==
    IF Len(reminders) = 0 THEN <<"No upcoming reminders.">>
    ELSE [k \in 1..Min(10, Len(reminders)) |->
             "  - " \o reminders[k].title \o " - " \o DateStr(reminders[k].date)
                 \o (IF reminders[k].isToday THEN " TODAY" ELSE "")
                 \o (IF reminders[k].isOverdue THEN " OVERDUE" ELSE "")]

\* _fmt_monthly_summary
_fmt_monthly_summary(summary) ==
    <<"  Income:    Rs" \o ToString(summary.totalIncome) \o ".00",
      "  Expenses:  Rs" \o ToString(summary.totalExpenses) \o ".00",
      "  Savings:   Rs" \o ToString(summary.totalIncome - summary.totalExpenses) \o ".00",
      "  Txn Count: " \o ToString(summary.transactionCount)>>

\* a context dict without keys
EmptyContext == [k \in {} |-> <<>>]

\* context.get(key): the text stored under the key, "" when there is none
ContextGet(context, key) ==
    IF key \in DOMAIN context THEN context[key] ELSE <<>>

\* the transactions block of _fetch_user_context
FetchTransactions(user_id, query, up) ==
    LET transactions == get_transactions_by_user(
                            user_id, extract_time_range(query), 30, up)
        monthly      == get_monthly_summary(user_id, up)
    IN  IF transactions.raised \/ monthly.raised
        THEN ("transactions" :> <<"Could not load transactions.">>)
                 @@ ("monthly_summary" :> <<>>)
        ELSE ("transactions" :> _fmt_transactions(transactions.value))
                 @@ ("monthly_summary" :> _fmt_monthly_summary(monthly.value))

\* str() of overallProgress inside the f-string: "0" for the integer 0, else
\* the float with the digits it needs and at least one decimal ("25.0")
PercentStr(p) ==
    IF ~p.is_float THEN "0"
    ELSE ToString(p.hundredths \div 100) \o "." \o
         (IF p.hundredths % 10 = 0 THEN ToString((p.hundredths % 100) \div 10)
          ELSE ToString((p.hundredths % 100) \div 10)
                   \o ToString(p.hundredths % 10))

\* the goals block of _fetch_user_context
FetchGoals(user_id, up) ==
    LET goals        == get_goals_by_user(user_id, up)
        goal_summary == get_goal_summary(user_id, up)
    IN  IF goals.raised \/ goal_summary.raised
        THEN ("goals" :> <<"Could not load goals.">>) @@ ("goal_summary" :> <<>>)
        ELSE ("goals" :> _fmt_goals(goals.value))
                 @@ ("goal_summary" :>
                        <<"  Total: " \o ToString(goal_summary.value.totalGoals)
                              \o " | Active: "
                              \o ToString(goal_summary.value.activeGoals)
                              \o " | Completed: "
                              \o ToString(goal_summary.value.completedGoals)
                              \o " | Overall Progress: "
                              \o PercentStr(goal_summary.value.overallProgress)
                              \o "%">>)

\* the reminders block of _fetch_user_context
FetchReminders(user_id, up) ==
    LET reminders == get_upcoming_reminders(user_id, 14, up)
        today     == get_today_reminders(user_id, up)
        counts    == count_reminders(user_id, up)
    IN  IF reminders.raised \/ today.raised \/ counts.raised
        THEN ("reminders" :> <<"Could not load reminders.">>)
        ELSE ("reminders" :> _fmt_reminders(reminders.value))
                 @@ ("today_reminders" :>
                        IF Len(today.value) > 0 THEN _fmt_reminders(today.value)
                        ELSE <<"None today.">>)
                 @@ ("reminder_counts" :>
                        <<"Total: " \o ToString(counts.value.total)
                              \o " | Today: " \o ToString(counts.value.today)
                              \o " | Upcoming: " \o ToString(counts.value.upcoming)
                              \o " | Overdue: " \o ToString(counts.value.overdue)>>)

\* one category's block wiped when another category fails
FetchIsolated_Abort(user_id, intent, query, up) ==
    LET wanted == {c \in Categories : intent["needs_" \o c]}
    IN  IF wanted \subseteq up
        THEN (IF intent.needs_transactions
              THEN FetchTransactions(user_id, query, TRUE) ELSE EmptyContext)
             @@ (IF intent.needs_goals
                 THEN FetchGoals(user_id, TRUE) ELSE EmptyContext)
             @@ (IF intent.needs_reminders
                 THEN FetchReminders(user_id, TRUE) ELSE EmptyContext)
        ELSE [c \in wanted |-> <<"Could not load " \o c \o ".">>]

\* _fetch_user_context: the blocks of the categories of the plan, one after
\* the other, each in its own try; up is the set of categories whose service
\* calls succeed
_fetch_user_context(user_id, intent, query, up) ==
    (IF intent.needs_transactions
     THEN FetchTransactions(user_id, query, "transactions" \in up)
     ELSE EmptyContext)
    @@ (IF intent.needs_goals
        THEN FetchGoals(user_id, "goals" \in up) ELSE EmptyContext)
    @@ (IF intent.needs_reminders
        THEN FetchReminders(user_id, "reminders" \in up) ELSE EmptyContext)

\* a section of the system prompt: its heading and the lines under it
Section(label, lines) == [label |-> label, lines |-> lines]

\* _build_system_prompt: the sections, which the code joins with blank lines
_build_system_prompt(context, intent) ==
    LET section(key, label) ==
            IF Len(ContextGet(context, key)) > 0
            THEN <<Section(label, ContextGet(context, key))>> ELSE <<>>
    IN  <<Section("AI_IDENTITY",
                  <<"The user is authenticated and you have access to their real financial data below.",
                    "Today", "Rules (follow strictly in every response)",
                    "Response Structure">>)>>
        \o section("monthly_summary", "THIS MONTH'S FINANCIAL SUMMARY:")
        \o section("transactions", "RECENT TRANSACTIONS (last 30 days):")
        \o section("goal_summary", "GOAL OVERVIEW:")
        \o section("goals", "YOUR GOALS:")
        \o section("reminder_counts", "REMINDER OVERVIEW:")
        \o section("today_reminders", "TODAY'S REMINDERS:")
        \o section("reminders", "UPCOMING REMINDERS (next 14 days):")
        \o (IF /\ Len(ContextGet(context, "transactions")) = 0
               /\ Len(ContextGet(context, "goals")) = 0
               /\ Len(ContextGet(context, "reminders")) = 0
            THEN <<Section("NOTE",
                     <<"No specific financial data matched this query.">>)>>
            ELSE <<>>)

\* ------------------------------------------------------------------------
\* Inputs of the pipeline
\* ------------------------------------------------------------------------

\* the texts a client sends: blank, a question about personal data, and a
\* general text that holds a phone number
Messages ==
    {<<" ">>,
     <<"g", "o", "a", "l", "s">>,
     <<"c", "a", "l", "l", " ", "9", "8", "7", "6", "5", "4", "3", "2", "1", "0">>}

\* mask_message(text) = pii_masker.mask(text)
mask_message(text) == mask(text)

\* _classify_intent of the orchestrator
_classify_intent(query) == get_intents_for_fetch(query)

\* the label of a detector as the safety note shows it: k.replace("_", " ")
LabelText(label) ==
    CASE label = "credit_card" -> "credit card"
      [] label = "account_number" -> "account number"
      [] OTHER -> label

\* ", ".join(labels)
RECURSIVE JoinLabels(_)
JoinLabels(found) ==
    IF Len(found) = 0 THEN ""
    ELSE IF Len(found) = 1 THEN LabelText(found[1].label)
    ELSE LabelText(found[1].label) \o ", " \o JoinLabels(Tail(found))

\* get_safety_message
get_safety_message(result) ==
    IF ~result.has_sensitive_info THEN <<>>
    ELSE <<"Sensitive info (" \o JoinLabels(result.pii_found)
              \o ") detected and partially masked for your privacy.">>

\* response_text = f"{safety_message}\n\n{response_text}" when PII was found
WithSafetyMessage(pii_result, response_text) ==
    IF pii_result.has_sensitive_info /\ Len(get_safety_message(pii_result)) > 0
    THEN get_safety_message(pii_result) \o <<"\n\n">> \o response_text
    ELSE response_text

\* the content of the answer a backend returns
Reply(backend) == <<"answer of " \o backend>>

\* how a provider call can fail
FailureKinds == {"timeout", "error"}

\* GUEST_SIGNIN_PROMPT
GUEST_SIGNIN_PROMPT ==
    <<"To access personalized insights based on your real transactions, goals, ",
      "and reminders, please sign in.", "\n\n",
      "Once signed in, I can analyze your spending patterns, track savings progress, ",
      "and provide tailored financial recommendations.">>

\* the guest handler's needs_data: the fast intent requires sign-in, or the
\* text holds one of the personal keywords
PersonalKeywords ==
    <<<<"m", "y">>, <<"i", " ", "s", "p", "e", "n", "t">>,
      <<"m", "y", " ", "t", "r", "a", "n", "s", "a", "c", "t", "i", "o", "n", "s">>,
      <<"m", "y", " ", "g", "o", "a", "l", "s">>,
      <<"m", "y", " ", "b", "u", "d", "g", "e", "t">>,
      <<"m", "y", " ", "h", "i", "s", "t", "o", "r", "y">>,
      <<"h", "o", "w", " ", "m", "u", "c", "h", " ", "d", "i", "d", " ", "i">>>>

needs_data(intent_result, masked_msg) ==
    \/ intent_result.requires_auth
    \/ AnyIn(PersonalKeywords, StrLower(masked_msg))

\* SystemMessage / HumanMessage of the message list handed to a provider
SystemMessage(content) == [type |-> "system", content |-> content, by |-> 0]
HumanMessage(content, by) == [type |-> "human", content |-> content, by |-> by]

\* the fallback hop is taken unless the failed provider is already Gemini
ShouldFallback(provider) == provider # "gemini"

\* the provider reported after the fallback hop answered, unchanged
ProviderAfterFallback_Keep(provider) == provider

\* provider = "gemini" once the fallback hop answered
ProviderAfterFallback(provider) == "gemini"

\* the result dicts of process_authenticated_query
SuccessResult(provider, response_text) ==
    [status |-> "success", provider |-> provider, response |-> response_text,
     error |-> <<>>]
ErrorResult(error) ==
    [status |-> "error", provider |-> "None", response |-> <<>>, error |-> error]
NoResult == [status |-> "none", provider |-> "None", response |-> <<>>, error |-> <<>>]

\* ------------------------------------------------------------------------
\* State
\* ------------------------------------------------------------------------

VARIABLES
    user_sessions,   \* AIOrchestrator.user_sessions: user id -> ChatMemory
    chat_history,    \* the "chat_history" collection of the database
    appended,        \* SpecMem: the turns passed to add_message since the
                     \* construction or the last clear_history, in order
    memCalls         \* SpecMem: the number of add_message calls made

memVars == <<user_sessions, chat_history, appended, memCalls>>

\* ------------------------------------------------------------------------
\* ChatMemory (ai/memory/chat_memory.py)
\* ------------------------------------------------------------------------

\* ChatMemory.__init__: max_messages defaults to 50
DefaultMaxMessages == 50

ChatMemory(user_id, max_messages) ==
    [user_id            |-> user_id,
     max_messages       |-> max_messages,
     in_memory_messages |-> <<>>]

\* HumanMessage(content=...) / AIMessage(content=...); by is the query that
\* made the call (0 outside the pipeline), kept to tell equal texts apart
Message(message_type, content, by) ==
    [type    |-> IF message_type = "human" THEN "human" ELSE "ai",
     content |-> content,
     by      |-> by]

\* the document _persist_message inserts
PersistDoc(user_id, message, message_type) ==
    [userId  |-> IF ObjectIdIsValid(user_id) THEN ObjectId(user_id)
                 ELSE BsonStr(user_id),
     type    |-> message_type,
     content |-> message.content,
     by      |-> message.by]

\* _persist_message: insert_one, whose failure is logged and swallowed
_persist_message(coll, user_id, message, message_type, dbOk) ==
    IF dbOk THEN Append(coll, PersistDoc(user_id, message, message_type))
    ELSE coll

\* AppendAndTrim with the slice taken from the wrong end: the newest turns
\* are dropped instead of the oldest
AppendAndTrim_KeepOldest(mem, message) ==
    LET added == Append(mem.in_memory_messages, message)
    IN  IF Len(added) > mem.max_messages
        THEN [mem EXCEPT !.in_memory_messages = SubSeq(added, 1, mem.max_messages)]
        ELSE [mem EXCEPT !.in_memory_messages = added]

\* the append-and-trim of add_message on the list of one ChatMemory
AppendAndTrim(mem, message) ==
    LET added == Append(mem.in_memory_messages, message)
    IN  IF Len(added) > mem.max_messages
        THEN [mem EXCEPT !.in_memory_messages = PySliceLast(added, mem.max_messages)]
        ELSE [mem EXCEPT !.in_memory_messages = added]

\* add_message(content, message_type) on the memory of user_id
add_message(user_id, content, message_type, by, dbOk) ==
    LET message == Message(message_type, content, by)
    IN  /\ user_sessions' =
               [user_sessions EXCEPT ![user_id] = AppendAndTrim(@, message)]
        /\ chat_history' =
               _persist_message(chat_history, user_id, message, message_type, dbOk)

\* get_conversation_history
get_conversation_history(user_id) == user_sessions[user_id].in_memory_messages

\* _clear_persisted_history: delete_many({"userId": self.user_id})
_clear_persisted_history(coll, user_id, dbOk) ==
    IF dbOk THEN SelectSeq(coll, LAMBDA d : d.userId # BsonStr(user_id))
    ELSE coll

\* clear_history
clear_history(user_id, dbOk) ==
    /\ user_sessions' = [user_sessions EXCEPT ![user_id].in_memory_messages = <<>>]
    /\ chat_history' = _clear_persisted_history(chat_history, user_id, dbOk)

\* get_persisted_history: find({"userId": self.user_id}) newest first, cut to
\* limit, reversed; [] when the read fails
get_persisted_history(coll, user_id, limit, dbOk) ==
    IF dbOk
    THEN PySliceLast(SelectSeq(coll, LAMBDA d : d.userId = BsonStr(user_id)), limit)
    ELSE <<>>

\* ------------------------------------------------------------------------
\* State of the pipeline
\* ------------------------------------------------------------------------

VARIABLES
    llm_settings,    \* ai/config.py: the API keys and DEFAULT_LLM
    llm_provider,    \* ai/llm/init.py: the cached handles
    services_up,     \* the categories whose service calls succeed (the
                     \* others raise: the database refuses their queries)
    sessions,        \* SocketEventHandlers.sessions: sid -> session
    task             \* one entry per query: where its handler stands and
                     \* the handler's locals, calls and output

pipeVars == <<llm_settings, llm_provider, services_up, sessions, task>>

vars == <<user_sessions, chat_history, appended, memCalls,
          llm_settings, llm_provider, services_up, sessions, task>>

\* the queries of one run of Spec
NumQueries == 1
Queries == 1..NumQueries

\* the queries of one run of SpecConcurrent
NumConcurrent == 2
ConcurrentQueries == 1..NumConcurrent

\* the socket of the run
Sids == {"s1"}

\* get_session: a new session is a guest's
GuestSession ==
    [user_id |-> "None", is_authenticated |-> FALSE, username |-> "None",
     conversation_history |-> <<>>]

\* the session after handle_connect authenticated the socket's token; the
\* user lookup accepts Mongo ids only
AuthenticatedSession(user_id) ==
    [user_id |-> user_id, is_authenticated |-> TRUE, username |-> "user",
     conversation_history |-> <<>>]

\* no intent decision and no time range yet
NoDecision == [primary_intent |-> "None"]
NoTimeRange == [unbounded |-> FALSE, days |-> 0]

\* a query that has not arrived
IdleTask ==
    [pc |-> "idle", entry |-> "none", sid |-> "none", is_authenticated |-> FALSE,
     user_id |-> "None", data |-> <<>>, message |-> <<>>, query |-> <<>>,
     pii_result |-> [original |-> <<>>, masked |-> <<>>, pii_found |-> <<>>,
                     has_sensitive_info |-> FALSE],
     intent_result |-> [primary_intent |-> "None", requires_auth |-> FALSE],
     decision |-> NoDecision, time_range |-> NoTimeRange,
     intent |-> FetchFlags({}), context |-> EmptyContext,
     provider |-> "None", requested |-> "None", llm |-> NoModel,
     system_prompt |-> <<>>, messages |-> <<>>, calls |-> <<>>,
     result |-> NoResult, emitted |-> <<>>, http |-> [status |-> 0],
     durable |-> "none", fetches |-> <<>>]

\* the pipeline variables while no query runs (SpecMem)
PipeIdle ==
    /\ llm_settings = [GROQ_API_KEY |-> "", GEMINI_API_KEY |-> "",
                       DEFAULT_LLM |-> "groq"]
    /\ llm_provider = LLMProvider
    /\ services_up = Categories
    /\ sessions = [sid \in Sids |-> GuestSession]
    /\ task = [q \in Queries |-> IdleTask]

\* the application after start-up: some configuration of the keys, the
\* default provider's handle cached if it could be made, one connected socket
Init ==
    /\ \E groq \in GroqKeys : \E gemini \in GeminiKeys : \E default \in DefaultLlms :
           /\ llm_settings = [GROQ_API_KEY |-> groq, GEMINI_API_KEY |-> gemini,
                              DEFAULT_LLM |-> default]
           /\ llm_provider = lifespan(llm_settings)
    /\ services_up \in SUBSET Categories
    /\ \E session \in {GuestSession,
                       AuthenticatedSession("507f1f77bcf86cd799439011")} :
           sessions = [sid \in Sids |-> session]
    /\ task = [q \in Queries |-> IdleTask]
    /\ user_sessions = [u \in {} |-> ChatMemory(u, DefaultMaxMessages)]
    /\ chat_history = <<>>
    /\ appended = <<>>
    /\ memCalls = 0

\* get_user_memory: the memory of user_id, created on first use
get_user_memory(memories, user_id) ==
    IF user_id \in DOMAIN memories THEN memories
    ELSE memories @@ (user_id :> ChatMemory(user_id, DefaultMaxMessages))

\* one provider call of the log of a query
Call(position, llm, outcome, messages) ==
    [position |-> position, backend |-> llm.backend, outcome |-> outcome,
     messages |-> messages]

\* process_authenticated_query, steps 3 and 4 up to the await of the insert
\* of the user turn: build the prompt, append the user turn in memory
PromptAndRemember(q, user_id, query, provider, fields, intent, context) ==
    /\ user_sessions' =
           [get_user_memory(user_sessions, user_id) EXCEPT ![user_id] =
               AppendAndTrim(@, Message("human", query, q))]
    /\ task' = [task EXCEPT ![q] =
           [fields EXCEPT !.pc = "persist_human",
                          !.user_id = user_id,
                          !.query = query,
                          !.provider = provider,
                          !.intent = intent,
                          !.context = context,
                          !.system_prompt = _build_system_prompt(context, intent)]]

\* process_authenticated_query, step 2: fetch the categories of the plan
\* (up: the categories whose service calls succeed)
FetchAndPrompt(q, user_id, query, provider, up, fields, intent) ==
    PromptAndRemember(q, user_id, query, provider, fields, intent,
                      _fetch_user_context(user_id, intent, query, up))

\* process_authenticated_query from its entry: step 1 classifies the query
BeginAuthenticatedQuery(q, user_id, query, provider, up, fields) ==
    FetchAndPrompt(q, user_id, query, provider, up, fields,
                   _classify_intent(query))

\* handle_send_message without the test of is_authenticated: every message
\* goes to handle_authenticated_message with the session's user_id
HandleMessage_NoBranch(q, sid, data, message, pii_result) ==
    BeginAuthenticatedQuery(q, sessions[sid].user_id, pii_result.masked, "None",
        services_up,
        [task[q] EXCEPT !.entry = "ws", !.sid = sid, !.data = data,
             !.message = message,
             !.is_authenticated = sessions[sid].is_authenticated,
             !.pii_result = pii_result,
             !.emitted = <<[event |-> "bot_typing", isTyping |-> TRUE]>>])

\* handle_send_message for a message that is not empty, up to the first
\* await of the response handler: read the session, emit the typing
\* indicator, then handle_authenticated_message (orchestrator on the masked
\* text) or handle_guest_message (fast classification, sleep)
HandleMessage(q, sid, data, message, pii_result) ==
    LET session == sessions[sid]
        typing  == [event |-> "bot_typing", isTyping |-> TRUE]
        fields  == [task[q] EXCEPT !.entry = "ws", !.sid = sid,
                        !.data = data, !.message = message,
                        !.is_authenticated = session.is_authenticated,
                        !.pii_result = pii_result,
                        !.emitted = <<typing>>]
    IN  IF session.is_authenticated
        THEN BeginAuthenticatedQuery(q, session.user_id, pii_result.masked,
                                     "None", services_up, fields)
        ELSE /\ task' = [task EXCEPT ![q] =
                    [fields EXCEPT !.pc = "sleep", !.query = pii_result.masked,
                         !.intent_result = fast_classify(pii_result.masked)]]
             /\ UNCHANGED user_sessions

\* handle_send_message: the text is trimmed, an empty one is refused with
\* an error event, any other is masked and handled
handle_send_message(q) ==
    \E sid \in Sids : \E data \in Messages :
        /\ task[q].pc = "idle"
        /\ IF Len(StrStrip(data)) = 0
           THEN /\ task' = [task EXCEPT ![q] =
                       [@ EXCEPT !.pc = "done", !.entry = "ws", !.sid = sid,
                                 !.data = data,
                                 !.emitted = <<[event |-> "error",
                                                code |-> "INVALID_MESSAGE"]>>]]
                /\ UNCHANGED user_sessions
           ELSE HandleMessage(q, sid, data, StrStrip(data),
                              mask_message(StrStrip(data)))
        /\ UNCHANGED <<chat_history, appended, memCalls, llm_settings,
                       services_up, llm_provider, sessions>>

\* the provider names the REST route accepts
RestProviders == {"grok", "gemini"}

\* chat_query up to the first await of the orchestrator: validate the
\* provider name (400), process_query (an error for a request without user,
\* which the route turns into a 500), else the authenticated pipeline on the
\* content as received
chat_query(q) ==
    \E content \in Messages : \E provider \in RestProviders \cup {"None"} :
    \E user_id \in Users \cup {"None"} :
        LET fields == [task[q] EXCEPT !.entry = "rest", !.message = content,
                           !.requested = provider, !.is_authenticated = TRUE]
        IN  /\ task[q].pc = "idle"
            /\ IF provider \notin RestProviders
               THEN /\ task' = [task EXCEPT ![q] =
                           [fields EXCEPT !.pc = "done", !.is_authenticated = FALSE,
                                !.http = [status |-> 400,
                                          detail |-> <<"Provider must be 'grok' or 'gemini'">>]]]
                    /\ UNCHANGED user_sessions
               ELSE IF user_id = "None"
               THEN /\ task' = [task EXCEPT ![q] =
                           [fields EXCEPT !.pc = "http", !.is_authenticated = FALSE,
                                !.result = ErrorResult(
                                    <<"Guest queries should be handled in websocket handler">>)]]
                    /\ UNCHANGED user_sessions
               ELSE BeginAuthenticatedQuery(q, user_id, content, provider,
                                            services_up, fields)
            /\ UNCHANGED <<chat_history, appended, memCalls, llm_settings,
                       services_up, llm_provider, sessions>>

\* where a finished orchestrator or guest result is turned into the answer
Answer(t) == IF t.entry = "ws" THEN "respond" ELSE "http"

\* process_authenticated_query from the end of the insert of the user turn to
\* the await of the primary call: read the history, resolve the provider,
\* get its handle (a raise ends the query with an error result), build the
\* message list
HumanTurnPersisted(q) ==
    \E dbOk \in BOOLEAN :
        LET t        == task[q]
            history  == get_conversation_history(t.user_id)
            provider == IF t.provider = "None" THEN llm_settings.DEFAULT_LLM
                        ELSE t.provider
            got      == get_llm(llm_settings, llm_provider, provider)
            messages == <<SystemMessage(t.system_prompt)>> \o history
                            \o <<HumanMessage(t.query, q)>>
        IN  /\ t.pc = "persist_human"
            /\ chat_history' = _persist_message(chat_history, t.user_id,
                                   Message("human", t.query, q), "human", dbOk)
            /\ llm_provider' = got.lp
            /\ task' = [task EXCEPT ![q] =
                   IF got.raised
                   THEN [t EXCEPT !.pc = Answer(t), !.provider = provider,
                                  !.result = ErrorResult(got.error)]
                   ELSE [t EXCEPT !.pc = "invoke_primary", !.provider = provider,
                                  !.llm = got.llm, !.messages = messages]]
            /\ UNCHANGED <<user_sessions, appended, memCalls, llm_settings,
                       services_up, sessions>>

\* handle_guest_message after its sleep: the sign-in prompt for a question
\* about personal data, else the default provider's handle and the call
GuestSleepOver(q) ==
    LET t   == task[q]
        got == get_default_llm(llm_settings, llm_provider)
    IN  /\ t.pc = "sleep"
        /\ IF needs_data(t.intent_result, t.query)
           THEN /\ task' = [task EXCEPT ![q] =
                       [t EXCEPT !.pc = "respond",
                                 !.result = SuccessResult("informational",
                                                          GUEST_SIGNIN_PROMPT)]]
                /\ UNCHANGED llm_provider
           ELSE /\ llm_provider' = got.lp
                /\ task' = [task EXCEPT ![q] =
                       IF got.raised
                       THEN [t EXCEPT !.pc = "respond",
                                      !.provider = llm_settings.DEFAULT_LLM,
                                      !.result = ErrorResult(got.error)]
                       ELSE [t EXCEPT !.pc = "invoke_primary",
                                      !.provider = llm_settings.DEFAULT_LLM,
                                      !.llm = got.llm,
                                      !.messages =
                                          <<SystemMessage(<<Section("GUEST_SYSTEM_PROMPT", <<>>)>>),
                                            HumanMessage(t.query, q)>>]]
        /\ UNCHANGED <<user_sessions, chat_history, appended, memCalls,
                       llm_settings,
                       services_up, sessions>>

\* the answer of a provider is recorded: for an authenticated query the
\* assistant turn is appended in memory and its insert awaited, a guest's
\* answer is ready to be sent
Answered(q, t, provider) ==
    IF t.is_authenticated
    THEN /\ user_sessions' = [user_sessions EXCEPT ![t.user_id] =
                 AppendAndTrim(@, Message("ai", Reply(t.llm.backend), q))]
         /\ task' = [task EXCEPT ![q] =
                [t EXCEPT !.pc = "persist_ai", !.provider = provider,
                          !.result = SuccessResult(provider, Reply(t.llm.backend))]]
    ELSE /\ task' = [task EXCEPT ![q] =
                [t EXCEPT !.pc = "respond", !.provider = provider,
                          !.result = SuccessResult(provider, Reply(t.llm.backend))]]
         /\ UNCHANGED user_sessions

\* the primary call returns or raises; on a raise the fallback hop to Gemini
\* is taken unless the provider is Gemini already or no Gemini handle can
\* be made
PrimaryReturns(q) ==
    \E outcome \in {"ok"} \cup FailureKinds :
        LET t0  == task[q]
            t   == [t0 EXCEPT !.calls =
                       Append(@, Call("primary", t0.llm, outcome, t0.messages))]
            got == get_gemini_llm(llm_settings, llm_provider)
        IN  /\ t0.pc = "invoke_primary"
            /\ IF outcome = "ok"
               THEN /\ Answered(q, t, t.provider)
                    /\ UNCHANGED llm_provider
               ELSE IF ~ShouldFallback(t.provider)
               THEN /\ task' = [task EXCEPT ![q] =
                           [t EXCEPT !.pc = Answer(t),
                                !.result = ErrorResult(
                                    IF t.is_authenticated
                                    THEN <<"Gemini failed (ultimate fallback): ", outcome>>
                                    ELSE <<"Gemini failed: ", outcome>>)]]
                    /\ UNCHANGED <<user_sessions, llm_provider>>
               ELSE /\ llm_provider' = got.lp
                    /\ task' = [task EXCEPT ![q] =
                           IF got.raised
                           THEN [t EXCEPT !.pc = Answer(t),
                                    !.provider = IF t.is_authenticated THEN t.provider
                                                 ELSE "gemini",
                                    !.result = ErrorResult(
                                        <<"Both ", llm_settings.DEFAULT_LLM,
                                          " and Gemini failed">>
                                        \o (IF t.is_authenticated
                                            THEN <<". Last error: ">> \o got.error
                                            ELSE <<>>))]
                           ELSE [t EXCEPT !.pc = "invoke_fallback",
                                    !.provider = IF t.is_authenticated THEN t.provider
                                                 ELSE "gemini",
                                    !.llm = got.llm]]
                    /\ UNCHANGED user_sessions
            /\ UNCHANGED <<chat_history, appended, memCalls, llm_settings,
                       services_up, sessions>>

\* the fallback call returns or raises; there is no further hop
FallbackReturns(q) ==
    \E outcome \in {"ok"} \cup FailureKinds :
        LET t0 == task[q]
            t  == [t0 EXCEPT !.calls =
                      Append(@, Call("fallback", t0.llm, outcome, t0.messages))]
        IN  /\ t0.pc = "invoke_fallback"
            /\ IF outcome = "ok"
               THEN Answered(q, t, IF t.is_authenticated
                                   THEN ProviderAfterFallback(t.provider)
                                   ELSE t.provider)
               ELSE /\ task' = [task EXCEPT ![q] =
                           [t EXCEPT !.pc = Answer(t),
                                !.result = ErrorResult(
                                    <<"Both ", llm_settings.DEFAULT_LLM,
                                      " and Gemini failed">>
                                    \o (IF t.is_authenticated
                                        THEN <<". Last error: ", outcome>>
                                        ELSE <<>>))]]
                    /\ UNCHANGED user_sessions
            /\ UNCHANGED <<chat_history, appended, memCalls, llm_settings,
                       services_up, llm_provider, sessions>>

\* the insert of the assistant turn ends (a failure is swallowed) and
\* process_authenticated_query returns its success result
AiTurnPersisted(q) ==
    \E dbOk \in BOOLEAN :
        LET t == task[q]
        IN  /\ t.pc = "persist_ai"
            /\ chat_history' = _persist_message(chat_history, t.user_id,
                                   Message("ai", t.result.response, q), "ai", dbOk)
            /\ task' = [task EXCEPT ![q] = [t EXCEPT !.pc = Answer(t)]]
            /\ UNCHANGED <<user_sessions, appended, memCalls, llm_settings,
                       services_up, llm_provider, sessions>>

\* what handle_authenticated_message returns for a result of the orchestrator
AuthenticatedResponse(t) ==
    IF t.result.status = "error"
    THEN get_fallback_message("authenticated", "default")
    ELSE [text     |-> WithSafetyMessage(t.pii_result, t.result.response),
          provider |-> t.result.provider,
          metadata |-> [response_type |-> "authenticated",
                        pii_masked |-> t.pii_result.has_sensitive_info]]

\* what handle_guest_message returns: a raise anywhere in it gives the
\* guest fallback message
GuestResponse(t) ==
    IF t.result.status = "error"
    THEN get_fallback_message("guest", "default")
    ELSE [text     |-> WithSafetyMessage(t.pii_result, t.result.response),
          provider |-> t.result.provider,
          metadata |-> [response_type |-> "guest",
                        pii_masked |-> t.pii_result.has_sensitive_info]]

\* the bot response alone: the typing indicator is left on
ResponseEvents_NoTypingOff(response) ==
    <<[event |-> "bot_response", message |-> response.text,
       provider |-> response.provider, metadata |-> response.metadata]>>

\* the two events handle_send_message emits for a response
ResponseEvents(response) ==
    <<[event |-> "bot_typing", isTyping |-> FALSE],
      [event |-> "bot_response", message |-> response.text,
       provider |-> response.provider, metadata |-> response.metadata]>>

\* handle_send_message once the response handler returned: typing off, the
\* bot response, then the two turns in the socket's conversation history,
\* of which the last 20 are kept
EmitResponse(q) ==
    LET t        == task[q]
        response == IF t.is_authenticated THEN AuthenticatedResponse(t)
                    ELSE GuestResponse(t)
        history  == sessions[t.sid].conversation_history
                        \o <<[role |-> "user", content |-> t.message],
                             [role |-> "assistant", content |-> response.text]>>
    IN  /\ t.pc = "respond"
        /\ task' = [task EXCEPT ![q] =
               [t EXCEPT !.pc = "done",
                         !.emitted = @ \o ResponseEvents(response)]]
        /\ sessions' = [sessions EXCEPT ![t.sid].conversation_history =
               IF Len(history) > 20 THEN PySliceLast(history, 20) ELSE history]
        /\ UNCHANGED <<user_sessions, chat_history, appended, memCalls,
                       llm_settings,
                       services_up, llm_provider>>

\* chat_query once process_query returned: 500 with the error text as
\* detail, or the ChatResponse whose provider is the requested name
HttpResponse(q) ==
    LET t == task[q]
    IN  /\ t.pc = "http"
        /\ task' = [task EXCEPT ![q] =
               [t EXCEPT !.pc = "done",
                         !.http = IF t.result.status = "error"
                                  THEN [status |-> 500, detail |-> t.result.error]
                                  ELSE [status |-> 200,
                                        response |-> t.result.response,
                                        provider |-> t.requested]]]
        /\ UNCHANGED <<user_sessions, chat_history, appended, memCalls,
                       llm_settings,
                       services_up, llm_provider, sessions>>

\* the steps a handler takes by itself once its query has arrived
Continue(q) ==
    \/ HumanTurnPersisted(q)
    \/ GuestSleepOver(q)
    \/ PrimaryReturns(q)
    \/ FallbackReturns(q)
    \/ AiTurnPersisted(q)
    \/ EmitResponse(q)
    \/ HttpResponse(q)

Next ==
    \E q \in Queries :
        \/ handle_send_message(q)
        \/ chat_query(q)
        \/ Continue(q)

\* Spec: the chat server with every configuration of the keys, a guest's or
\* an authenticated socket, and the REST route
Spec == Init /\ [][Next]_vars

\* FairSpec: every handler that can take a step eventually takes it (the
\* event loop resumes every task whose await has completed)
FairSpec == Spec /\ \A q \in Queries : WF_vars(Continue(q))

\* ------------------------------------------------------------------------
\* SpecConcurrent: one authenticated socket sends its messages without
\* waiting for the answers (python-socketio runs each event handler as a
\* task of its own)
\* ------------------------------------------------------------------------

InitConcurrent ==
    /\ \E default \in DefaultLlms :
           /\ llm_settings = [GROQ_API_KEY |-> "gsk_live",
                              GEMINI_API_KEY |-> "AIza_live",
                              DEFAULT_LLM |-> default]
           /\ llm_provider = lifespan(llm_settings)
    /\ services_up \in {Categories, {}}
    /\ sessions = [sid \in Sids |->
                       AuthenticatedSession("507f1f77bcf86cd799439011")]
    /\ task = [q \in ConcurrentQueries |-> IdleTask]
    /\ user_sessions = [u \in {} |-> ChatMemory(u, DefaultMaxMessages)]
    /\ chat_history = <<>>
    /\ appended = <<>>
    /\ memCalls = 0

NextConcurrent ==
    \E q \in ConcurrentQueries :
        \/ handle_send_message(q)
        \/ HumanTurnPersisted(q)
        \/ PrimaryReturns(q)
        \/ FallbackReturns(q)
        \/ AiTurnPersisted(q)
        \/ EmitResponse(q)

SpecConcurrent == InitConcurrent /\ [][NextConcurrent]_vars

\* ------------------------------------------------------------------------
\* SpecMem: one ChatMemory driven by add_message and clear_history
\* ------------------------------------------------------------------------

MemContents == {<<"h", "i">>, <<"o", "k">>}

InitMem ==
    /\ \E u \in Users : \E n \in 1..MaxCap :
           user_sessions = (u :> ChatMemory(u, n))
    /\ chat_history = <<>>
    /\ appended = <<>>
    /\ memCalls = 0
    /\ PipeIdle

MemAddMessage ==
    \E u \in DOMAIN user_sessions : \E content \in MemContents :
    \E message_type \in {"human", "ai"} : \E dbOk \in BOOLEAN :
        /\ memCalls < MaxAppends
        /\ add_message(u, content, message_type, 0, dbOk)
        /\ appended' = Append(appended, Message(message_type, content, 0))
        /\ memCalls' = memCalls + 1
        /\ UNCHANGED pipeVars

MemClearHistory ==
    \E u \in DOMAIN user_sessions : \E dbOk \in BOOLEAN :
        /\ clear_history(u, dbOk)
        /\ appended' = <<>>
        /\ UNCHANGED memCalls
        /\ UNCHANGED pipeVars

NextMem == MemAddMessage \/ MemClearHistory

SpecMem == InitMem /\ [][NextMem]_vars

\* ------------------------------------------------------------------------
\* SpecResolve: the intent resolver applied to query texts, as steps 1 to 3
\* of process_authenticated_query apply it (classification, time range,
\* fetch, prompt); a text can be resolved again and again, in either of two
\* slots
\* ------------------------------------------------------------------------

\* "How much did I spend last week on food?"
SpendLastWeek ==
    <<"H", "o", "w", " ", "m", "u", "c", "h", " ", "d", "i", "d", " ", "I",
      " ", "s", "p", "e", "n", "d", " ", "l", "a", "s", "t", " ", "w", "e",
      "e", "k", " ", "o", "n", " ", "f", "o", "o", "d", "?">>

\* the texts resolved: analytical phrases alone and with multi-category
\* phrases and keywords, keywords of one and of several categories (one
\* with a share of a quarter), two multi-category phrases with a keyword of
\* the third category, no keyword at all, the empty text
ResolveQueries ==
    {SpendLastWeek,
     <<"a", "n", "a", "l", "y", "s", "e", " ", "m", "y", " ", "g", "o",
       "a", "l", "s">>,
     <<"s", "u", "m", "m", "a", "r", "y", ":", " ", "a", "m", " ", "i",
       " ", "s", "a", "v", "i", "n", "g", " ", "e", "n", "o", "u", "g",
       "h">>,
     <<"G", "i", "v", "e", " ", "m", "e", " ", "a", " ", "R", "E", "P",
       "O", "R", "T", " ", "o", "f", " ", "p", "e", "n", "d", "i", "n",
       "g", " ", "b", "i", "l", "l", "s">>,
     <<"a", "m", " ", "i", " ", "s", "a", "v", "i", "n", "g", " ", "e",
       "n", "o", "u", "g", "h">>,
     <<"d", "u", "e", " ", "s", "a", "v", "i", "n", "g", "s">>,
     <<"b", "a", "l", "a", "n", "c", "e", " ", "t", "r", "a", "c", "k",
       " ", "u", "p", "c", "o", "m", "i", "n", "g">>,
     <<"h", "e", "l", "l", "o", " ", "t", "h", "e", "r", "e">>,
     <<"g", "o", "a", "l", " ", "p", "r", "o", "g", "r", "e", "s", "s">>,
     <<"t", "r", "a", "n", "s", "a", "c", "t", "i", "o", "n", " ", "a",
       "c", "c", "u", "m", "u", "l", "a", "t", "e">>,
     <<"r", "e", "m", "i", "n", "d", " ", "m", "e", " ", "o", "f", " ",
       "m", "y", " ", "b", "u", "d", "g", "e", "t", " ", "p", "l", "a",
       "n">>,
     <<"u", "p", "c", "o", "m", "i", "n", "g", " ", "g", "o", "a", "l",
       "s", " ", "t", "h", "i", "s", " ", "w", "e", "e", "k">>,
     <<"p", "a", "i", "d", " ", "s", "u", "m", " ", "g", "o", "a", "l",
       "s", " ", "a", "l", "e", "r", "t", "s">>,
     <<"d", "u", "e", ":", " ", "p", "e", "n", "d", "i", "n", "g", " ",
       "b", "i", "l", "l", "s", ",", " ", "a", "f", "f", "o", "r", "d">>,
     <<>>}

\* the user whose data is fetched
ResolveUser == "507f1f77bcf86cd799439011"

\* the locals of process_authenticated_query after step 3 for a query whose
\* decision, fetch plan and time range are given
Resolved(query, decision, intent, time_range, context) ==
    [IdleTask EXCEPT !.pc = "resolved", !.is_authenticated = TRUE,
                     !.user_id = ResolveUser, !.query = query,
                     !.decision = decision, !.intent = intent,
                     !.time_range = time_range, !.context = context,
                     !.system_prompt = _build_system_prompt(context, intent)]

\* step 1 with a keyword list that lives across calls: the keywords found
\* for the queries resolved before are still in it
ResolvedWithPlan_KeywordsKept(query, decision, intent) ==
    Resolved(query,
             [decision EXCEPT !.keywords =
                 (IF task[1].pc = "resolved" THEN task[1].decision.keywords ELSE <<>>)
                     \o @],
             intent, extract_time_range(query),
             _fetch_user_context(ResolveUser, intent, query, services_up))

\* the fetch of step 2 for a plan
ResolvedWithPlan(query, decision, intent) ==
    Resolved(query, decision, intent, extract_time_range(query),
             _fetch_user_context(ResolveUser, intent, query, services_up))

InitResolve ==
    /\ llm_settings = [GROQ_API_KEY |-> "gsk_live", GEMINI_API_KEY |-> "AIza_live",
                       DEFAULT_LLM |-> "groq"]
    /\ llm_provider = lifespan(llm_settings)
    /\ services_up = Categories
    /\ sessions = [sid \in Sids |-> AuthenticatedSession(ResolveUser)]
    /\ task = [q \in ConcurrentQueries |-> IdleTask]
    /\ user_sessions = [u \in {} |-> ChatMemory(u, DefaultMaxMessages)]
    /\ chat_history = <<>>
    /\ appended = <<>>
    /\ memCalls = 0

\* one resolution: classify, then the fetch plan, the time range, the fetch
\* and the prompt
Resolve(q) ==
    \E query \in ResolveQueries :
        /\ task' = [task EXCEPT ![q] =
               ResolvedWithPlan(query, classify(query), _classify_intent(query))]
        /\ UNCHANGED <<user_sessions, chat_history, appended, memCalls,
                       llm_settings, services_up, llm_provider, sessions>>

NextResolve == \E q \in ConcurrentQueries : Resolve(q)

SpecResolve == InitResolve /\ [][NextResolve]_vars

\* ------------------------------------------------------------------------
\* SpecSanitize: the sanitizer applied to texts that hold a card number, as
\* the first step of the response handlers applies it
\* ------------------------------------------------------------------------

\* what stands before the card number
CardPrefixes ==
    {<<>>,
     <<"c", "a", "r", "d", " ">>,
     <<"p", "w", "d", " ">>}

\* runs of 16 digits
CardRuns ==
    {<<"4", "1", "1", "1", "1", "1", "1", "1", "1", "1", "1", "1", "1", "1", "1", "1">>,
     <<"9", "8", "7", "6", "5", "4", "3", "2", "1", "0", "1", "2", "3", "4", "5", "6">>}

\* what follows the card number
CardSuffixes ==
    {<<>>,
     <<"@", "x", ".", "c", "o", "m">>}

\* the texts sanitized
CardTexts == {p \o c \o s : p \in CardPrefixes, c \in CardRuns, s \in CardSuffixes}

InitSanitize ==
    /\ llm_settings = [GROQ_API_KEY |-> "gsk_live", GEMINI_API_KEY |-> "AIza_live",
                       DEFAULT_LLM |-> "groq"]
    /\ llm_provider = lifespan(llm_settings)
    /\ services_up = Categories
    /\ sessions = [sid \in Sids |-> GuestSession]
    /\ task = [q \in ConcurrentQueries |-> IdleTask]
    /\ user_sessions = [u \in {} |-> ChatMemory(u, DefaultMaxMessages)]
    /\ chat_history = <<>>
    /\ appended = <<>>
    /\ memCalls = 0

\* pii_result = mask_message(message)
Sanitize(q) ==
    \E text \in CardTexts :
        /\ task' = [task EXCEPT ![q] =
               [IdleTask EXCEPT !.pc = "sanitized", !.data = text, !.message = text,
                                !.pii_result = mask_message(text)]]
        /\ UNCHANGED <<user_sessions, chat_history, appended, memCalls,
                       llm_settings, services_up, llm_provider, sessions>>

NextSanitize == \E q \in ConcurrentQueries : Sanitize(q)

SpecSanitize == InitSanitize /\ [][NextSanitize]_vars

\* ------------------------------------------------------------------------
\* SpecHistory: one query (first task) next to the requests of the history
\* routes (second task), keys live, every service up
\* ------------------------------------------------------------------------

\* AIOrchestrator.get_chat_history
get_chat_history(memories, coll, user_id, dbOk) ==
    get_persisted_history(coll, get_user_memory(memories, user_id)[user_id].user_id,
                          DefaultMaxMessages, dbOk)

\* the in-memory list is emptied only once the delete went through
clear_chat_history_DeleteFirst(user_id, dbOk) ==
    /\ user_sessions' =
           IF dbOk
           THEN [get_user_memory(user_sessions, user_id) EXCEPT
                     ![user_id].in_memory_messages = <<>>]
           ELSE get_user_memory(user_sessions, user_id)
    /\ chat_history' = _clear_persisted_history(chat_history, user_id, dbOk)

\* AIOrchestrator.clear_chat_history: clear_history on the memory of the
\* user, which is created on first use
clear_chat_history(user_id, dbOk) ==
    /\ user_sessions' =
           [get_user_memory(user_sessions, user_id) EXCEPT
                ![user_id].in_memory_messages = <<>>]
    /\ chat_history' = _clear_persisted_history(chat_history, user_id, dbOk)

\* a request of a history route as it ends
HistoryRequest(entry, user_id, dbOk, http) ==
    [IdleTask EXCEPT !.pc = "done", !.entry = entry, !.user_id = user_id,
                     !.is_authenticated = TRUE,
                     !.durable = IF dbOk THEN "ok" ELSE "failed",
                     !.http = http]

\* GET /history: the list get_chat_history returns
get_chat_history_route(q) ==
    \E user_id \in Users : \E dbOk \in BOOLEAN :
        /\ task[q].pc \in {"idle", "done"}
        /\ user_sessions' = get_user_memory(user_sessions, user_id)
        /\ task' = [task EXCEPT ![q] =
               HistoryRequest("history_get", user_id, dbOk,
                   [status |-> 200,
                    history |-> get_chat_history(user_sessions, chat_history,
                                                 user_id, dbOk)])]
        /\ UNCHANGED <<chat_history, appended, memCalls, llm_settings,
                       services_up, llm_provider, sessions>>

\* DELETE /history: clear_chat_history, whose result is a success whether
\* the delete went through or not
clear_chat_history_route(q) ==
    \E user_id \in Users : \E dbOk \in BOOLEAN :
        /\ task[q].pc \in {"idle", "done"}
        /\ clear_chat_history(user_id, dbOk)
        /\ task' = [task EXCEPT ![q] =
               HistoryRequest("history_clear", user_id, dbOk,
                   [status |-> 200, result |-> "success"])]
        /\ UNCHANGED <<appended, memCalls, llm_settings,
                       services_up, llm_provider, sessions>>

InitHistory ==
    /\ \E default \in DefaultLlms :
           /\ llm_settings = [GROQ_API_KEY |-> "gsk_live",
                              GEMINI_API_KEY |-> "AIza_live",
                              DEFAULT_LLM |-> default]
           /\ llm_provider = lifespan(llm_settings)
    /\ services_up = Categories
    /\ sessions = [sid \in Sids |->
                       AuthenticatedSession("507f1f77bcf86cd799439011")]
    /\ task = [q \in ConcurrentQueries |-> IdleTask]
    /\ user_sessions = [u \in {} |-> ChatMemory(u, DefaultMaxMessages)]
    /\ chat_history = <<>>
    /\ appended = <<>>
    /\ memCalls = 0

NextHistory ==
    \/ handle_send_message(1)
    \/ chat_query(1)
    \/ HumanTurnPersisted(1)
    \/ PrimaryReturns(1)
    \/ FallbackReturns(1)
    \/ AiTurnPersisted(1)
    \/ EmitResponse(1)
    \/ HttpResponse(1)
    \/ get_chat_history_route(2)
    \/ clear_chat_history_route(2)

SpecHistory == InitHistory /\ [][NextHistory]_vars

\* ------------------------------------------------------------------------
\* SpecFetch: _fetch_user_context followed await by await, one block of
\* service calls per category of the plan
\* ------------------------------------------------------------------------

\* the range of dates the block of a category asks its service for: the
\* transactions from the start extract_time_range gives up to now, every
\* goal, the reminders of the 14 days ahead
FetchWindow(category, query) ==
    CASE category = "transactions" ->
             [direction |-> "past",
              unbounded |-> extract_time_range(query).unbounded,
              days |-> extract_time_range(query).days]
      [] category = "goals" ->
             [direction |-> "none", unbounded |-> TRUE, days |-> 0]
      [] OTHER ->
             [direction |-> "ahead", unbounded |-> FALSE, days |-> 14]

\* the keys the block of a category leaves in the context
FetchBlock(category, user_id, query, up) ==
    CASE category = "transactions" ->
             FetchTransactions(user_id, query, "transactions" \in up)
      [] category = "goals" -> FetchGoals(user_id, "goals" \in up)
      [] OTHER -> FetchReminders(user_id, "reminders" \in up)

\* the categories of a plan
ActiveCategories(intent) == {c \in Categories : intent["needs_" \o c]}

\* the categories whose block has logged the event
FetchLogged(fetches, event) ==
    {fetches[i].category : i \in {j \in 1..Len(fetches) : fetches[j].event = event}}

\* the block in flight: started and not ended
FetchInFlight(fetches) == FetchLogged(fetches, "start") \ FetchLogged(fetches, "end")

\* the next block of _fetch_user_context: the first category, in the order
\* of the if statements, that the plan holds and that has not started
NextCategory(intent, fetches) ==
    LET waiting == {n \in 1..Len(INTENT_ORDER) :
                       /\ INTENT_ORDER[n] \in ActiveCategories(intent)
                       /\ INTENT_ORDER[n] \notin FetchLogged(fetches, "start")}
    IN  INTENT_ORDER[CHOOSE n \in waiting : \A m \in waiting : n <= m]

\* a question about a day without transactions
SpentToday == <<"s", "p", "e", "n", "t", " ", "t", "o", "d", "a", "y">>

\* the texts whose fetch is followed
FetchQueries == ResolveQueries \cup {SpentToday}

\* process_authenticated_query, step 1, and the entry of _fetch_user_context
FetchArrives(q) ==
    \E query \in FetchQueries :
        /\ task[q].pc = "idle"
        /\ task' = [task EXCEPT ![q] =
               [IdleTask EXCEPT !.pc = "fetch", !.entry = "rest",
                                !.is_authenticated = TRUE,
                                !.user_id = ResolveUser, !.message = query,
                                !.query = query,
                                !.intent = _classify_intent(query)]]
        /\ UNCHANGED <<user_sessions, chat_history, appended, memCalls,
                       llm_settings, services_up, llm_provider, sessions>>

\* the first service call of the next block is awaited; no block is entered
\* while the calls of another are awaited
FetchStarts(q) ==
    LET t == task[q]
    IN  /\ t.pc = "fetch"
        /\ FetchInFlight(t.fetches) = {}
        /\ ActiveCategories(t.intent) \ FetchLogged(t.fetches, "start") # {}
        /\ task' = [task EXCEPT ![q] =
               [t EXCEPT !.fetches =
                   Append(@, [category |-> NextCategory(t.intent, t.fetches),
                              event |-> "start",
                              window |-> FetchWindow(
                                  NextCategory(t.intent, t.fetches), t.query)])]]
        /\ UNCHANGED <<user_sessions, chat_history, appended, memCalls,
                       llm_settings, services_up, llm_provider, sessions>>

\* the last service call of the block returns or one of them raises: the
\* keys of the block are stored in the context
FetchEnds(q) ==
    LET t == task[q]
    IN  /\ t.pc = "fetch"
        /\ \E category \in FetchInFlight(t.fetches) :
               task' = [task EXCEPT ![q] =
                   [t EXCEPT !.fetches =
                                 Append(@, [category |-> category, event |-> "end",
                                            window |-> FetchWindow(category, t.query)]),
                             !.context =
                                 @ @@ FetchBlock(category, t.user_id, t.query,
                                                 services_up)]]
        /\ UNCHANGED <<user_sessions, chat_history, appended, memCalls,
                       llm_settings, services_up, llm_provider, sessions>>

\* _fetch_user_context returns and step 3 builds the prompt
FetchReturns(q) ==
    LET t == task[q]
    IN  /\ t.pc = "fetch"
        /\ FetchLogged(t.fetches, "end") = ActiveCategories(t.intent)
        /\ task' = [task EXCEPT ![q] =
               [t EXCEPT !.pc = "fetched",
                         !.system_prompt = _build_system_prompt(t.context, t.intent)]]
        /\ UNCHANGED <<user_sessions, chat_history, appended, memCalls,
                       llm_settings, services_up, llm_provider, sessions>>

InitFetch ==
    /\ llm_settings = [GROQ_API_KEY |-> "gsk_live", GEMINI_API_KEY |-> "AIza_live",
                       DEFAULT_LLM |-> "groq"]
    /\ llm_provider = lifespan(llm_settings)
    /\ services_up \in SUBSET Categories
    /\ sessions = [sid \in Sids |-> AuthenticatedSession(ResolveUser)]
    /\ task = [q \in Queries |-> IdleTask]
    /\ user_sessions = [u \in {} |-> ChatMemory(u, DefaultMaxMessages)]
    /\ chat_history = <<>>
    /\ appended = <<>>
    /\ memCalls = 0

NextFetch ==
    \E q \in Queries :
        \/ FetchArrives(q)
        \/ FetchStarts(q)
        \/ FetchEnds(q)
        \/ FetchReturns(q)

SpecFetch == InitFetch /\ [][NextFetch]_vars

\* ------------------------------------------------------------------------
\* SpecDrop: one query of an authenticated socket that may disconnect at
\* any time; the handler of the query is a task of its own, which the
\* disconnect event does not touch
\* ------------------------------------------------------------------------

\* handle_disconnect: cleanup_session deletes the session of the socket
handle_disconnect(sid) ==
    /\ sid \in DOMAIN sessions
    /\ sessions' = [s \in DOMAIN sessions \ {sid} |-> sessions[s]]
    /\ UNCHANGED <<user_sessions, chat_history, appended, memCalls,
                   llm_settings, services_up, llm_provider, task>>

\* handle_send_message once the response handler returned, the socket
\* gone: the events are emitted to an empty room and the two turns are
\* appended to the session dict the handler still holds, which is no longer
\* in sessions
EmitDetached(q) ==
    LET t == task[q]
    IN  /\ t.pc = "respond"
        /\ t.sid \notin DOMAIN sessions
        /\ task' = [task EXCEPT ![q] = [t EXCEPT !.pc = "done"]]
        /\ UNCHANGED <<user_sessions, chat_history, appended, memCalls,
                       llm_settings, services_up, llm_provider, sessions>>

InitDrop ==
    /\ \E default \in DefaultLlms :
           /\ llm_settings = [GROQ_API_KEY |-> "gsk_live",
                              GEMINI_API_KEY |-> "AIza_live",
                              DEFAULT_LLM |-> default]
           /\ llm_provider = lifespan(llm_settings)
    /\ services_up \in {Categories, {}}
    /\ sessions = [sid \in Sids |->
                       AuthenticatedSession("507f1f77bcf86cd799439011")]
    /\ task = [q \in Queries |-> IdleTask]
    /\ user_sessions = [u \in {} |-> ChatMemory(u, DefaultMaxMessages)]
    /\ chat_history = <<>>
    /\ appended = <<>>
    /\ memCalls = 0

NextDrop ==
    \/ \E sid \in Sids : handle_disconnect(sid)
    \/ \E q \in Queries :
           \/ Sids \subseteq DOMAIN sessions /\ handle_send_message(q)
           \/ HumanTurnPersisted(q)
           \/ PrimaryReturns(q)
           \/ FallbackReturns(q)
           \/ AiTurnPersisted(q)
           \/ task[q].sid \in DOMAIN sessions /\ EmitResponse(q)
           \/ EmitDetached(q)

SpecDrop == InitDrop /\ [][NextDrop]_vars

\* ------------------------------------------------------------------------
\* SpecRender: the records of one category, as many as the store holds for
\* the user, fetched and rendered as _fetch_user_context does
\* ------------------------------------------------------------------------

\* the most records the store holds for the user in a run
MaxRecords == 40

\* limit=30 of the get_transactions_by_user call
TransactionLimit == 30

\* the k-th record of a category as its service returns it
StoredRecord(category, k) ==
    CASE category = "transactions" ->
             [date |-> 0 - k, type |-> "expense", category |-> "food",
              amount |-> k, description |-> "groceries"]
      [] category = "goals" ->
             [name |-> "bike", status |-> "Active", savedAmount |-> k,
              targetAmount |-> 100, targetDate |-> k,
              progressPercentage |-> RoundRatio(k, 100, 100)]
      [] OTHER ->
             [title |-> "rent", date |-> 0, isToday |-> TRUE, isOverdue |-> FALSE]

\* the records the first service call of the block returns
FetchedRecords(category, records) ==
    IF category = "transactions"
    THEN SubSeq(records, 1, Min(TransactionLimit, Len(records)))
    ELSE records

\* the lines of the section of a category for the records the store holds:
\* the transactions cut to the limit of the call and then formatted, the
\* goals and the reminders formatted as found
RenderCategory(category, records) ==
    CASE category = "transactions" ->
             _fmt_transactions(FetchedRecords(category, records))
      [] category = "goals" -> _fmt_goals(records)
      [] OTHER -> _fmt_reminders(records)

\* the block of one category for a store of n records; the log line of the
\* block tells how many records were fetched
Render(q) ==
    \E category \in Categories : \E n \in 0..MaxRecords :
        /\ task' = [task EXCEPT ![q] =
               [IdleTask EXCEPT
                    !.pc = "rendered", !.user_id = ResolveUser,
                    !.is_authenticated = TRUE,
                    !.intent = FetchFlags({category}),
                    !.fetches = <<[category |-> category, event |-> "end",
                                   fetched |-> Len(FetchedRecords(category,
                                       [k \in 1..n |-> StoredRecord(category, k)]))]>>,
                    !.context = (category :>
                        RenderCategory(category,
                            [k \in 1..n |-> StoredRecord(category, k)]))]]
        /\ UNCHANGED <<user_sessions, chat_history, appended, memCalls,
                       llm_settings, services_up, llm_provider, sessions>>

InitRender ==
    /\ llm_settings = [GROQ_API_KEY |-> "gsk_live", GEMINI_API_KEY |-> "AIza_live",
                       DEFAULT_LLM |-> "groq"]
    /\ llm_provider = lifespan(llm_settings)
    /\ services_up = Categories
    /\ sessions = [sid \in Sids |-> AuthenticatedSession(ResolveUser)]
    /\ task = [q \in Queries |-> IdleTask]
    /\ user_sessions = [u \in {} |-> ChatMemory(u, DefaultMaxMessages)]
    /\ chat_history = <<>>
    /\ appended = <<>>
    /\ memCalls = 0

NextRender == \E q \in Queries : Render(q)

SpecRender == InitRender /\ [][NextRender]_vars

\* ------------------------------------------------------------------------
\* Claims
\* ------------------------------------------------------------------------

\* C4: for a session with cap N (N >= 1), after k appended turns the in-memory
\* history holds exactly min(k, N) turns, and they are the last min(k, N) of
\* the appended turns in their original order (the oldest is evicted first).
C4_SessionCap ==
    \A u \in DOMAIN user_sessions :
        LET hist == user_sessions[u].in_memory_messages
            N    == user_sessions[u].max_messages
            k    == Len(appended)
        IN  /\ Len(hist) = Min(k, N)
            /\ \A i \in 1..Len(hist) : hist[i] = appended[k - Len(hist) + i]

\* C4 witness: N + 1 turns were appended, the first two of them different,
\* and the history holds N turns
C4_Witness ==
    \E u \in DOMAIN user_sessions :
        /\ Len(appended) = user_sessions[u].max_messages + 1
        /\ Len(user_sessions[u].in_memory_messages) = user_sessions[u].max_messages
        /\ appended[1] # appended[Len(appended)]

\* ------------------------------------------------------------------------
\* Vocabulary of the claims about the pipeline
\* ------------------------------------------------------------------------

\* the conversation history of the user of query q
HistoryOf(q) ==
    IF task[q].user_id \in DOMAIN user_sessions
    THEN user_sessions[task[q].user_id].in_memory_messages
    ELSE <<>>

\* the turns query q appended to it
TurnsOf(q) == SelectSeq(HistoryOf(q), LAMBDA m : m.by = q)

\* the orchestrator or the guest handler has produced the result of query q
HasResult(q) == task[q].pc \in {"respond", "http", "done"}

\* query q went through process_authenticated_query
Orchestrated(q) == task[q].is_authenticated /\ task[q].pc # "idle"

\* the calls of query q that raised
FailedCalls(q) ==
    {k \in 1..Len(task[q].calls) : task[q].calls[k].outcome # "ok"}

\* the primary call of q raised and its fallback call answered
PrimaryThrewSecondaryAnswered(q) ==
    /\ Len(task[q].calls) = 2
    /\ task[q].calls[1].position = "primary"
    /\ task[q].calls[1].outcome # "ok"
    /\ task[q].calls[2].position = "fallback"
    /\ task[q].calls[2].outcome = "ok"

\* C1: for every authenticated query whose primary call raised and whose
\* fallback call answered, the provider id returned to the caller is the
\* secondary's ("gemini"), also in the bot response sent over the socket,
\* and the query has appended to the history of its user exactly one user
\* turn followed by exactly one assistant turn.
C1_FallbackProvenance ==
    \A q \in DOMAIN task :
        (Orchestrated(q) /\ PrimaryThrewSecondaryAnswered(q) /\ HasResult(q)) =>
            /\ task[q].result.status = "success"
            /\ task[q].result.provider = "gemini"
            /\ TurnsOf(q) = <<Message("human", task[q].query, q),
                              Message("ai", task[q].result.response, q)>>
            /\ (task[q].pc = "done" /\ task[q].entry = "ws") =>
                   task[q].emitted[Len(task[q].emitted)].provider = "gemini"

\* C1 witness: an authenticated query is done after its primary call raised
\* and its fallback call answered
C1_Witness ==
    \E q \in DOMAIN task :
        /\ Orchestrated(q)
        /\ PrimaryThrewSecondaryAnswered(q)
        /\ task[q].pc = "done"
        /\ task[q].calls[1].backend = "groq"

\* C2: while a query is between its read of the history and the append of
\* its assistant turn, no turn of another query is appended (the last turn
\* of the history is its own user turn), so that once every query is done
\* the history is a sequence of pairs: a user turn, then the assistant turn
\* of the same query.
C2_SerializedReadThenAppend ==
    /\ \A q \in DOMAIN task :
           task[q].pc \in {"invoke_primary", "invoke_fallback"} =>
               HistoryOf(q)[Len(HistoryOf(q))] = Message("human", task[q].query, q)
    /\ (\A q \in DOMAIN task : task[q].pc = "done") =>
           \A q \in DOMAIN task :
               /\ Len(HistoryOf(q)) % 2 = 0
               /\ \A k \in 1..Len(HistoryOf(q)) :
                      k % 2 = 1 =>
                          /\ HistoryOf(q)[k].type = "human"
                          /\ HistoryOf(q)[k + 1].type = "ai"
                          /\ HistoryOf(q)[k + 1].by = HistoryOf(q)[k].by

\* the categories of the fetch plan of query q
PlanOf(q) == {c \in Categories : task[q].intent["needs_" \o c]}

\* the context keys a category fills
CategoryKeys(c) ==
    CASE c = "transactions" -> {"transactions", "monthly_summary"}
      [] c = "goals"        -> {"goals", "goal_summary"}
      [] c = "reminders"    -> {"reminders", "today_reminders", "reminder_counts"}

\* the retrieval of category c throws for query q: its service calls are
\* down, or the user id is not one the services can turn into an ObjectId
Throws(q, c) == c \notin services_up \/ ~ObjectIdIsValid(task[q].user_id)

\* the error marker of a category
ErrorMarker(c) == <<"Could not load " \o c \o ".">>

\* C3: for every fetch plan and every set of categories whose retrieval
\* throws, the fetch returns a context that holds keys of the plan only;
\* a failing category carries its error marker and nothing else, and every
\* other category of the plan holds exactly what the fetch gives when no
\* service is down.
C3_FetchIsolation ==
    \A q \in DOMAIN task :
        Orchestrated(q) =>
            /\ DOMAIN task[q].context \subseteq UNION {CategoryKeys(c) : c \in PlanOf(q)}
            /\ \A c \in PlanOf(q) :
                   IF Throws(q, c)
                   THEN /\ task[q].context[c] = ErrorMarker(c)
                        /\ \A k \in CategoryKeys(c) \ {c} :
                               ContextGet(task[q].context, k) = <<>>
                   ELSE \A k \in CategoryKeys(c) :
                            /\ k \in DOMAIN task[q].context
                            /\ task[q].context[k] =
                                   _fetch_user_context(task[q].user_id, task[q].intent,
                                                       task[q].query, Categories)[k]
                            /\ task[q].context[c] # ErrorMarker(c)

\* C3 witness: a plan of all three categories of which the goals alone throw,
\* with the transactions and the reminders of the user listed
C3_Witness ==
    \E q \in DOMAIN task :
        /\ Orchestrated(q)
        /\ PlanOf(q) = Categories
        /\ ObjectIdIsValid(task[q].user_id)
        /\ services_up = Categories \ {"goals"}
        /\ task[q].context["goals"] = ErrorMarker("goals")
        /\ task[q].context["transactions"] \notin
               {ErrorMarker("transactions"),
                <<"No transactions found for this period.">>}
        /\ task[q].context["reminders"] \notin
               {ErrorMarker("reminders"), <<"No upcoming reminders.">>}

\* query q was handed to the provider chain and failed terminally: its
\* result is an error of the orchestrator or of the guest handler
FailedTerminally(q) ==
    /\ HasResult(q)
    /\ task[q].result.status = "error"
    /\ task[q].entry = "ws" \/ task[q].is_authenticated

\* the invocations of query q against the fixed secondary provider
SecondaryCalls(q) ==
    {k \in 1..Len(task[q].calls) : task[q].calls[k].backend = "gemini"}

\* C5: every query that failed terminally, whatever the provider preference
\* and whatever made the primary fail (a raising call, a timeout, a handle
\* that cannot be made), has made exactly one invocation against the fixed
\* secondary provider (Gemini).
C5_OneSecondaryInvocation ==
    \A q \in DOMAIN task :
        FailedTerminally(q) => Cardinality(SecondaryCalls(q)) = 1

\* C6: a query makes at most two provider invocations, the primary one and
\* then one fallback, and never two against the same provider.
C6_TwoTierChain ==
    \A q \in DOMAIN task :
        /\ Len(task[q].calls) <= 2
        /\ Len(task[q].calls) >= 1 => task[q].calls[1].position = "primary"
        /\ Len(task[q].calls) = 2 =>
               /\ task[q].calls[2].position = "fallback"
               /\ task[q].calls[1].backend # task[q].calls[2].backend

\* C7: in every successful response that a provider produced, the reported
\* provider id (of the result, of the bot response, of the REST response)
\* is the backend whose invocation answered.
C7_ReportedProviderAnswered ==
    \A q \in DOMAIN task :
        (HasResult(q) /\ task[q].result.status = "success"
                      /\ Len(task[q].calls) > 0) =>
            LET answered == task[q].calls[Len(task[q].calls)].backend
            IN  /\ task[q].result.provider = answered
                /\ (task[q].pc = "done" /\ task[q].entry = "ws") =>
                       task[q].emitted[Len(task[q].emitted)].provider = answered

\* both provider calls of query q raised
BothProvidersFailed(q) ==
    /\ Len(task[q].calls) = 2
    /\ FailedCalls(q) = {1, 2}

\* the sub-reason of a failure kind in the table of fallback messages
SubReason(kind) == IF kind \in ErrorTypes THEN kind ELSE "default"

\* the text the caller of query q received
Delivered(q) ==
    IF task[q].entry = "ws" THEN task[q].emitted[Len(task[q].emitted)].message
    ELSE IF task[q].http.status = 200 THEN task[q].http.response
    ELSE task[q].http.detail

\* C8: when both providers failed, the caller received the canned fallback
\* message (provider id "fallback" on the socket) selected by the kind of
\* identity and by the sub-reason of the last failure, never the raw error.
C8_FallbackBySubReason ==
    \A q \in DOMAIN task :
        (task[q].pc = "done" /\ BothProvidersFailed(q)) =>
            /\ Delivered(q) =
                   get_fallback_message(
                       IF task[q].is_authenticated THEN "authenticated" ELSE "guest",
                       SubReason(task[q].calls[2].outcome)).text
            /\ task[q].entry = "ws" =>
                   task[q].emitted[Len(task[q].emitted)].provider = "fallback"

\* the texts of query q that left the process or were stored: the user
\* turns handed to a provider, appended to the history, inserted in the
\* chat_history collection
TextsOut(q) ==
    {task[q].calls[k].messages[n].content :
        k \in 1..Len(task[q].calls),
        n \in {n \in 1..Len(task[q].messages) : task[q].messages[n].type = "human"
                                                 /\ task[q].messages[n].by = q}}
    \cup {TurnsOf(q)[k].content :
              k \in {k \in 1..Len(TurnsOf(q)) : TurnsOf(q)[k].type = "human"}}
    \cup {chat_history[k].content :
              k \in {k \in 1..Len(chat_history) : chat_history[k].type = "human"
                                                   /\ chat_history[k].by = q}}

\* C10: on every entry path, every text of a query that is sent to a
\* provider, appended to the session store or inserted in its durable mirror
\* is the sanitizer's output for the message received.
C10_OnlyRedactedLeaves ==
    \A q \in DOMAIN task :
        \A text \in TextsOut(q) : text = mask_message(task[q].message).masked

\* a non-empty message for query q was delivered to handle_send_message
Arrived(q) == task[q].entry = "ws" /\ Len(task[q].message) > 0

\* the bot responses emitted for query q
BotResponses(q) ==
    {k \in 1..Len(task[q].emitted) : task[q].emitted[k].event = "bot_response"}

\* every typing indicator set to true for q is followed by one set to false
TypingSwitchedOff(q) ==
    \A k \in 1..Len(task[q].emitted) :
        (task[q].emitted[k].event = "bot_typing" /\ task[q].emitted[k].isTyping) =>
            \E j \in (k + 1)..Len(task[q].emitted) :
                /\ task[q].emitted[j].event = "bot_typing"
                /\ ~task[q].emitted[j].isTyping

\* the handler of q has finished with exactly one bot response that carries
\* a text, and with the typing indicator switched off
AnsweredOnce(q) ==
    /\ task[q].pc = "done"
    /\ Cardinality(BotResponses(q)) = 1
    /\ \A k \in BotResponses(q) :
           /\ "message" \in DOMAIN task[q].emitted[k]
           /\ Len(task[q].emitted[k].message) > 0
    /\ TypingSwitchedOff(q)

IsBlank(text) == \A i \in 1..Len(text) : text[i] \in Whitespace

\* the handler of q received a text that is empty once trimmed
BlankArrives(q) ==
    /\ task[q].pc = "idle"
    /\ task'[q].entry = "ws"
    /\ IsBlank(task'[q].data)

\* C11: a message whose text is empty after trimming is refused with an
\* error event before any stage runs: the handler is finished at once, the
\* error is the only event emitted (no typing indicator, no bot response),
\* nothing of the sanitizer, the resolver, the fetch or a provider is in the
\* handler's state, and the sessions, the memories and the stored turns are
\* unchanged.
C11_EmptyMessageRejected ==
    [][\A q \in Queries :
          BlankArrives(q) =>
              /\ task'[q] = [IdleTask EXCEPT
                                !.pc = "done", !.entry = "ws",
                                !.sid = task'[q].sid, !.data = task'[q].data,
                                !.emitted = <<[event |-> "error",
                                               code |-> "INVALID_MESSAGE"]>>]
              /\ UNCHANGED <<sessions, user_sessions, chat_history, llm_provider>>]_vars

\* C11 witness: a blank text was refused
C11_Witness ==
    \E q \in Queries :
        /\ task[q].entry = "ws"
        /\ Len(task[q].data) > 0
        /\ IsBlank(task[q].data)
        /\ task[q].pc = "done"
        /\ task[q].emitted[1].event = "error"

\* the lowercased text contains one of the broad analytical phrases
HasAnalyticalPhrase(text) ==
    \E n \in 1..Len(FETCH_ALL_PHRASES) : Contains(StrLower(text), FETCH_ALL_PHRASES[n])

\* the lowercased text contains a phrase of the multi-category table
HasMultiPhrase(text) ==
    \E n \in 1..Len(MULTI_INTENT_PHRASES) :
        Contains(StrLower(text), MULTI_INTENT_PHRASES[n].phrase)

\* C12: a query that contains an analytical phrase is resolved to the plan
\* that fetches the ledger, the goals and the reminders, whatever
\* multi-category phrases or keywords it also contains
C12_AnalyticalFetchesAll ==
    \A q \in ConcurrentQueries :
        (task[q].pc = "resolved" /\ HasAnalyticalPhrase(task[q].query)) =>
            task[q].intent = [needs_transactions |-> TRUE, needs_goals |-> TRUE,
                              needs_reminders |-> TRUE]

\* an analytical phrase together with a multi-category phrase that names
\* fewer categories, resolved
C12_Witness ==
    \E q \in ConcurrentQueries :
        /\ task[q].pc = "resolved"
        /\ HasAnalyticalPhrase(task[q].query)
        /\ HasMultiPhrase(task[q].query)
        /\ \E n \in 1..Len(MULTI_INTENT_PHRASES) :
              /\ Contains(StrLower(task[q].query), MULTI_INTENT_PHRASES[n].phrase)
              /\ MULTI_INTENT_PHRASES[n].intents # {"transactions", "goals", "reminders"}
        /\ task[q].intent.needs_reminders

\* the decisions of the queries resolved so far
Decisions == {task[q].decision : q \in {q \in ConcurrentQueries : task[q].pc = "resolved"}}

\* the position of an intent in INTENT_ORDER
IntentIndex(intent) == CHOOSE i \in 1..Len(INTENT_ORDER) : INTENT_ORDER[i] = intent

\* the largest of the per-category confidences of a decision
MaxConfidence(d) ==
    CHOOSE c \in {d.normalized[i] : i \in 1..3} :
        \A i \in 1..3 : ~BigLess(c, d.normalized[i])

\* the decision names a category, and it is one of those of maximum weight
PrimaryHasMaxWeight(d) ==
    /\ d.primary_intent \in {INTENT_ORDER[i] : i \in 1..3}
    /\ \A i \in 1..3 : ~BigLess(d.scores[IntentIndex(d.primary_intent)], d.scores[i])

\* C13: for every query resolved, when the total weight is positive the
\* per-category confidences (weight divided by total) add up to exactly 1.0
\* and a decision that names a category names one of maximum weight; the
\* decision is "general" exactly when the total weight is 0 (then with the
\* default confidence 0.5) or the largest confidence is below 0.4.
C13_ConfidencesSumToOne ==
    \A d \in Decisions :
        IF d.total_score = BigZero
        THEN d.primary_intent = "general" /\ d.confidence = 5000
        ELSE /\ SumScores(d.normalized) = DoubleOne
             /\ d.primary_intent # "general" => PrimaryHasMaxWeight(d)
             /\ d.primary_intent = "general"
                    <=> BigLess(MaxConfidence(d), CONFIDENCE_THRESHOLD)

\* the ledger sections of a prompt
LedgerSections(prompt) ==
    SelectSeq(prompt, LAMBDA sec : sec.label = "RECENT TRANSACTIONS (last 30 days):")

\* the ledger lines of the entries of the user from the last so many days
LedgerLinesOfLast(days) ==
    _fmt_transactions(
        get_transactions_by_user(ResolveUser, [unbounded |-> FALSE, days |-> days],
                                 30, TRUE).value)

\* C14: for "How much did I spend last week on food?" from an authenticated
\* identity the plan fetches the ledger only, the window of the ledger fetch
\* is the trailing 7 days ending now, and the prompt assembled has a ledger
\* section (holding the entries of those 7 days).
C14_SpendLastWeek ==
    \A q \in ConcurrentQueries :
        (task[q].pc = "resolved" /\ task[q].query = SpendLastWeek) =>
            /\ task[q].intent = [needs_transactions |-> TRUE, needs_goals |-> FALSE,
                                 needs_reminders |-> FALSE]
            /\ task[q].time_range = [unbounded |-> FALSE, days |-> 7]
            /\ Len(LedgerSections(task[q].system_prompt)) = 1
            /\ LedgerSections(task[q].system_prompt)[1].lines = LedgerLinesOfLast(7)

\* a run of exactly 16 digits starts at position i of the text
CardRunAt(text, i) ==
    /\ i >= 1 /\ i + 15 <= Len(text)
    /\ \A k \in i..(i + 15) : text[k] \in Digits
    /\ (i = 1 \/ text[i - 1] \notin Digits)
    /\ (i + 15 = Len(text) \/ text[i + 16] \notin Digits)

\* the run with its 8 middle digits replaced by '*'
MiddleMasked(run) ==
    SubSeq(run, 1, 4) \o [k \in 1..8 |-> "*"] \o SubSeq(run, 13, 16)

\* C15: for every text that holds a run of 16 digits, the redacted text holds
\* the run with its first 4 and last 4 digits kept and its 8 middle digits
\* replaced by '*' (no later detector having changed it), and the
\* has-sensitive flag is true.
C15_CardMiddleMasked ==
    \A q \in ConcurrentQueries :
        task[q].pc = "sanitized" =>
            \A i \in 1..Len(task[q].data) :
                CardRunAt(task[q].data, i) =>
                    /\ Contains(task[q].pii_result.masked,
                                MiddleMasked(SubSeq(task[q].data, i, i + 15)))
                    /\ task[q].pii_result.has_sensitive_info

\* what a decision tells its caller
DecisionOf(t) ==
    [primary_intent    |-> t.decision.primary_intent,
     confidence        |-> t.decision.confidence,
     secondary_intents |-> t.decision.secondary_intents,
     keywords          |-> t.decision.keywords]

StoredTurns(coll, user_id) ==
    SelectSeq(coll, LAMBDA d :
        d.userId = PersistDoc(user_id, Message("human", <<>>, 0), "human").userId)

\* what GET /history answers for user_id now (the read going through)
HistoryNow(user_id) ==
    get_chat_history(user_sessions, chat_history, user_id, TRUE)

\* the step is a DELETE /history of user_id whose delete ended as outcome
ClearStep(user_id, outcome) ==
    /\ task'[1] = task[1]
    /\ task'[2].entry = "history_clear"
    /\ task'[2].user_id = user_id
    /\ task'[2].durable = outcome

\* after a clear whose delete went through nothing of the identity is left
ClearedEverywhere(user_id) ==
    ClearStep(user_id, "ok") =>
        /\ user_sessions'[user_id].in_memory_messages = <<>>
        /\ StoredTurns(chat_history', user_id) = <<>>
        /\ get_chat_history(user_sessions', chat_history', user_id, TRUE) = <<>>

\* C17: for every identity, getHistory returns the turns the identity's
\* queries have stored, in the order they were stored, and after
\* clearHistory getHistory is empty and no turn of the identity remains in
\* memory or in the durable mirror
C17_HistoryOfIdentity ==
    /\ [](\A u \in Users :
             HistoryNow(u) = PySliceLast(StoredTurns(chat_history, u),
                                         DefaultMaxMessages))
    /\ [][\A u \in Users : ClearedEverywhere(u)]_vars

\* ------------------------------------------------------------------------
\* C18: a failing durable write or delete
\* ------------------------------------------------------------------------

\* the step ends the insert awaited at pc of the query, and the insert failed
InsertFailed(pc) ==
    /\ task[1].pc = pc
    /\ task'[1].pc # pc
    /\ chat_history' = chat_history

\* the in-memory list of the query's user is untouched by the step and the
\* turn stands last in it, unless a DELETE /history emptied the list since
\* the append
TurnKept(turn) ==
    LET kept == user_sessions'[task[1].user_id].in_memory_messages
    IN  /\ user_sessions' = user_sessions
        /\ kept = <<>> \/ kept[Len(kept)] = turn

\* the query goes on to the provider call whenever a handle can be had
GoesOnToProvider ==
    LET name == IF task[1].provider = "None" THEN llm_settings.DEFAULT_LLM
                ELSE task[1].provider
    IN  ~get_llm(llm_settings, llm_provider, name).raised =>
            /\ task'[1].pc = "invoke_primary"
            /\ task'[1].result = NoResult

TurnsInMemory(q) ==
    IF task[q].user_id \in DOMAIN user_sessions
    THEN SelectSeq(user_sessions[task[q].user_id].in_memory_messages,
                   LAMBDA m : m.by = q)
    ELSE <<>>

TurnsStored(q) == SelectSeq(chat_history, LAMBDA d : d.by = q)

\* a provider call of query q has returned
InvocationCompleted(q) == task[q].calls # <<>>

\* C19: no turn of a query, user turn or assistant turn, is in the session
\* store before a provider invocation of that query has completed
C19_AppendAfterInvoke ==
    \A q \in Queries :
        (TurnsInMemory(q) # <<>> \/ TurnsStored(q) # <<>>) => InvocationCompleted(q)

\* ------------------------------------------------------------------------
\* C20: the message list of a provider call
\* ------------------------------------------------------------------------

\* the messages between the system prompt and the last message
PriorTurns(messages) == SubSeq(messages, 2, Len(messages) - 1)

\* the turns of the memory of query q's user that other queries appended
TurnsOfOthers(q) ==
    SelectSeq(user_sessions[task[q].user_id].in_memory_messages,
              LAMBDA m : m.by # q)

\* messages is the system prompt of q, then turns appended before q in the
\* order of the store, then the user turn of q, which stands nowhere else
ComposedFor(q, messages) ==
    /\ Len(messages) >= 2
    /\ messages[1] = SystemMessage(task[q].system_prompt)
    /\ messages[Len(messages)] = HumanMessage(task[q].query, q)
    /\ \A i \in 1..(Len(messages) - 1) : messages[i] # HumanMessage(task[q].query, q)
    /\ Len(PriorTurns(messages)) <= Len(TurnsOfOthers(q))
    /\ PriorTurns(messages) =
           SubSeq(TurnsOfOthers(q), 1, Len(PriorTurns(messages)))

\* C20: every provider call of an authenticated query, primary or fallback,
\* is handed the system prompt, the prior turns in stored order and the new
\* user turn exactly once, as the last message; the fallback call is handed
\* the list of the primary call
C20_MessageList ==
    \A q \in Queries :
        task[q].is_authenticated =>
            \A i \in 1..Len(task[q].calls) :
                /\ ComposedFor(q, task[q].calls[i].messages)
                /\ task[q].calls[i].messages = task[q].calls[1].messages

\* ------------------------------------------------------------------------
\* C21: the fetches of one query
\* ------------------------------------------------------------------------

\* the position of the event of a category in the log, 0 when it is not there
FetchEventAt(fetches, category, event) ==
    LET at == {i \in 1..Len(fetches) :
                  fetches[i].category = category /\ fetches[i].event = event}
    IN  IF at = {} THEN 0 ELSE CHOOSE i \in at : TRUE

\* every category of the plan has started before the log's first end
FannedOut(intent, fetches) ==
    \A done \in FetchLogged(fetches, "end") :
        \A c \in ActiveCategories(intent) :
            /\ FetchEventAt(fetches, c, "start") > 0
            /\ FetchEventAt(fetches, c, "start")
                   < FetchEventAt(fetches, done, "end")

\* C21: when the plan of a query has more than one category, the fetch of
\* every category of the plan is started before the fetch of any other has
\* completed, and the fetches that take a time window all use the same one
C21_FetchFanOut ==
    \A q \in Queries :
        Cardinality(ActiveCategories(task[q].intent)) > 1 =>
            /\ FannedOut(task[q].intent, task[q].fetches)
            /\ \A i, j \in 1..Len(task[q].fetches) :
                   (/\ task[q].fetches[i].window.direction # "none"
                    /\ task[q].fetches[j].window.direction # "none")
                       => task[q].fetches[i].window = task[q].fetches[j].window

\* ------------------------------------------------------------------------
\* C22: a connection dropped while its query is in flight
\* ------------------------------------------------------------------------

\* the socket of query q is gone while the query has not ended
DroppedInFlight(q) ==
    /\ task[q].entry = "ws"
    /\ task[q].pc \notin {"idle", "done"}
    /\ task[q].sid \notin DOMAIN sessions

\* the socket of query q went away before the query ended
EndedAfterDrop(q) ==
    /\ task[q].entry = "ws"
    /\ task[q].pc = "done"
    /\ task[q].sid \notin DOMAIN sessions

\* the histories hold the user turn of q only together with its assistant
\* turn
NoHalfWrittenTurns(q) ==
    /\ Len(TurnsInMemory(q)) \in {0, 2}
    /\ Len(TurnsStored(q)) \in {0, 2}

\* C22: once the connection of a query in flight is dropped, no turn of
\* that query is appended to a session history any more, and when the query
\* has ended no history holds its user turn without its assistant turn
C22_DropLeavesNoPartialWrite ==
    /\ [][\A q \in Queries :
              DroppedInFlight(q) =>
                  /\ user_sessions' = user_sessions
                  /\ chat_history' = chat_history]_vars
    /\ [](\A q \in Queries : EndedAfterDrop(q) => NoHalfWrittenTurns(q))

\* ------------------------------------------------------------------------
\* C23: one detector per character
\* ------------------------------------------------------------------------

\* the matches of a pattern in text from pos on, as <<first, end>> pairs
RECURSIVE MatchSpans(_, _, _)
MatchSpans(label, text, pos) ==
    IF pos > Len(text) THEN <<>>
    ELSE IF MatchEnd(label, text, pos) # 0
    THEN <<<<pos, MatchEnd(label, text, pos)>>>>
             \o MatchSpans(label, text, MatchEnd(label, text, pos))
    ELSE MatchSpans(label, text, pos + 1)

\* which characters of the text after pattern.sub stand in a span a detector
\* has rewritten: those of the replacements, and those marked before
RECURSIVE RewrittenAfter(_, _, _, _)
RewrittenAfter(label, text, rewritten, pos) ==
    IF pos > Len(text) THEN <<>>
    ELSE IF MatchEnd(label, text, pos) # 0
    THEN [i \in 1..Len(MaskFn(label, SubSeq(text, pos,
                                            MatchEnd(label, text, pos) - 1)))
             |-> TRUE]
             \o RewrittenAfter(label, text, rewritten, MatchEnd(label, text, pos))
    ELSE <<rewritten[pos]>> \o RewrittenAfter(label, text, rewritten, pos + 1)

\* from pattern n on, no match of a detector holds a character of a span
\* an earlier detector rewrote
RECURSIVE NeverRematched(_, _, _)
NeverRematched(n, text, rewritten) ==
    IF n > Len(PATTERNS) THEN TRUE
    ELSE LET spans == MatchSpans(PATTERNS[n], text, 1)
         IN  /\ \A s \in 1..Len(spans) :
                    \A i \in spans[s][1]..(spans[s][2] - 1) : ~rewritten[i]
             /\ IF spans = <<>> THEN NeverRematched(n + 1, text, rewritten)
                ELSE NeverRematched(n + 1, ReSub(PATTERNS[n], text, 1),
                         RewrittenAfter(PATTERNS[n], text, rewritten, 1))

\* C23: the detectors run in the order card, structured id, phone, email,
\* labeled account number, labeled password, and no detector matches,
\* records or rewrites a span an earlier detector has rewritten
C23_OneDetectorPerSpan ==
    /\ PATTERNS = <<"credit_card", "ssn", "phone", "email", "account_number",
                    "password">>
    /\ \A q \in ConcurrentQueries :
           task[q].pc = "sanitized" =>
               NeverRematched(1, task[q].message,
                              [i \in 1..Len(task[q].message) |-> FALSE])

\* ------------------------------------------------------------------------
\* C24, C25: the sections of the prompt and the closing note
\* ------------------------------------------------------------------------

\* the heading of the section that lists the records of a category
CategoryLabel(category) ==
    CASE category = "transactions" -> "RECENT TRANSACTIONS (last 30 days):"
      [] category = "goals" -> "YOUR GOALS:"
      [] OTHER -> "UPCOMING REMINDERS (next 14 days):"

\* the prompt has a section under the heading
HasSection(prompt, label) == \E i \in 1..Len(prompt) : prompt[i].label = label

\* the records the service of a category returns for the query (the
\* service working)
RecordsOf(category, user_id, query) ==
    CASE category = "transactions" ->
             get_transactions_by_user(user_id, extract_time_range(query), 30,
                                      TRUE).value
      [] category = "goals" -> get_goals_by_user(user_id, TRUE).value
      [] OTHER -> get_upcoming_reminders(user_id, 14, TRUE).value

\* the category is in the plan of the query, its fetch succeeded and it
\* returned at least one record
ProducedData(q, category) ==
    /\ category \in ActiveCategories(task[q].intent)
    /\ category \in services_up
    /\ Len(RecordsOf(category, task[q].user_id, task[q].query)) >= 1

\* C24: the section of a category is in the assembled prompt only if the
\* category was in the plan, was fetched successfully and returned at least
\* one record
C24_SectionOnlyForData ==
    \A q \in Queries :
        task[q].pc = "fetched" =>
            \A c \in Categories :
                HasSection(task[q].system_prompt, CategoryLabel(c))
                    => ProducedData(q, c)

\* C25: the closing note is in the assembled prompt exactly when no
\* category produced data
C25_NoteIffNoData ==
    \A q \in Queries :
        task[q].pc = "fetched" =>
            (HasSection(task[q].system_prompt, "NOTE")
                 <=> \A c \in Categories : ~ProducedData(q, c))

\* ------------------------------------------------------------------------
\* C26: the number of records in a section
\* ------------------------------------------------------------------------

\* the lines of the sections of every category of the context of query q
RenderedLines(q) ==
    {Len(task[q].context[c]) : c \in DOMAIN task[q].context \cap Categories}

\* C26: for every category the number of records rendered into its section
\* never exceeds a fixed constant (no more than the limit of the largest
\* fetch), whatever number of records the store holds
C26_SectionCapped ==
    \A q \in Queries :
        task[q].pc = "rendered" =>
            \A n \in RenderedLines(q) : n <= TransactionLimit

\* the confidence the decision d reports for the category c, in
\* ten-thousandths: the primary's, a secondary's, or 0 for a category that
\* is neither (no keyword of it matched)
ReportedConfidence(d, c) ==
    IF c = d.primary_intent THEN d.confidence
    ELSE LET hits == {k \in 1..Len(d.secondary_intents) :
                         d.secondary_intents[k].intent = c}
         IN  IF hits = {} THEN 0
             ELSE d.secondary_intents[CHOOSE k \in hits : TRUE].confidence

\* the slot q holds a resolved query with no analytical and no
\* multi-category phrase
ResolvedByWeights(q) ==
    /\ task[q].pc = "resolved"
    /\ ~HasAnalyticalPhrase(task[q].query)
    /\ ~HasMultiPhrase(task[q].query)

\* C27: for a query with no analytical and no multi-category phrase, the
\* plan has all three flags if the decision is "general"; otherwise the flag
\* of the primary category is true and the flag of any other category is
\* true exactly if the confidence the decision reports for it exceeds 0.25
C27_PlanFromConfidences ==
    \A q \in ConcurrentQueries :
        ResolvedByWeights(q) =>
            IF task[q].decision.primary_intent = "general"
            THEN \A c \in Categories : task[q].intent["needs_" \o c]
            ELSE \A c \in Categories :
                    task[q].intent["needs_" \o c] <=>
                        \/ c = task[q].decision.primary_intent
                        \/ ReportedConfidence(task[q].decision, c) > 2500

\* a decision with a secondary category above a quarter, fetched, and one
\* reported at a quarter (the quotient computed is just above it), not fetched
C27_Witness ==
    \E q \in ConcurrentQueries :
        /\ ResolvedByWeights(q)
        /\ task[q].decision.primary_intent \in Categories
        /\ \E c \in Categories \ {task[q].decision.primary_intent} :
              /\ ReportedConfidence(task[q].decision, c) > 2500
              /\ task[q].intent["needs_" \o c]
        /\ \E k \in 1..3 :
              /\ INTENT_ORDER[k] # task[q].decision.primary_intent
              /\ ReportedConfidence(task[q].decision, INTENT_ORDER[k]) = 2500
              /\ BigLess(<<1, 0, 0>>, task[q].decision.normalized[k])
              /\ ~task[q].intent["needs_" \o INTENT_ORDER[k]]

\* the phrase n of the multi-category table is in the lowercased text and
\* no phrase declared before it is
FirstDeclaredIn(text, n) ==
    /\ Contains(StrLower(text), MULTI_INTENT_PHRASES[n].phrase)
    /\ \A m \in 1..(n - 1) : ~Contains(StrLower(text), MULTI_INTENT_PHRASES[m].phrase)

\* C28: for a query with no analytical phrase and with a multi-category
\* phrase, the flags that are true in the plan are exactly the categories
\* mapped to the first phrase, in declaration order, that the query
\* contains, whatever keywords or other multi-category phrases it has
C28_FirstDeclaredPhrase ==
    \A q \in ConcurrentQueries :
        (/\ task[q].pc = "resolved"
         /\ ~HasAnalyticalPhrase(task[q].query)
         /\ HasMultiPhrase(task[q].query)) =>
            \E n \in 1..Len(MULTI_INTENT_PHRASES) :
                /\ FirstDeclaredIn(task[q].query, n)
                /\ \A c \in Categories :
                      task[q].intent["needs_" \o c] <=>
                          c \in MULTI_INTENT_PHRASES[n].intents

\* resolved: a text with two multi-category phrases mapped to different
\* subsets, the one declared later standing first in the text, and with a
\* keyword of the category outside the first phrase's subset as its primary
C28_Witness ==
    \E q \in ConcurrentQueries :
        /\ task[q].pc = "resolved"
        /\ ~HasAnalyticalPhrase(task[q].query)
        /\ \E n, m \in 1..Len(MULTI_INTENT_PHRASES) :
              /\ FirstDeclaredIn(task[q].query, n)
              /\ Contains(StrLower(task[q].query), MULTI_INTENT_PHRASES[m].phrase)
              /\ MULTI_INTENT_PHRASES[m].intents # MULTI_INTENT_PHRASES[n].intents
              /\ task[q].decision.primary_intent \in
                     Categories \ MULTI_INTENT_PHRASES[n].intents
              /\ ~task[q].intent["needs_" \o task[q].decision.primary_intent]

\* C29: every plan produced has at least one category flag true, for any
\* query text, the empty one included
C29_PlanNeverEmpty ==
    \A q \in ConcurrentQueries :
        task[q].pc = "resolved" =>
            \E c \in Categories : task[q].intent["needs_" \o c]

\* the empty query and a query without any keyword, resolved: no weight at
\* all, and the plan has the three flags
C29_Witness ==
    /\ \E q \in ConcurrentQueries :
          /\ task[q].pc = "resolved"
          /\ task[q].query = <<>>
          /\ task[q].decision.total_score = BigZero
          /\ \A c \in Categories : task[q].intent["needs_" \o c]
    /\ \E q \in ConcurrentQueries :
          /\ task[q].pc = "resolved"
          /\ task[q].query # <<>>
          /\ task[q].decision.primary_intent = "general"

\* the query q arrived on a socket whose session is not authenticated
GuestOnSocket(q) ==
    /\ task[q].entry = "ws"
    /\ ~sessions[task[q].sid].is_authenticated

\* the query q arrived at process_query without an identity
WithoutIdentity(q) ==
    /\ task[q].entry = "rest"
    /\ task[q].pc # "idle"
    /\ task[q].user_id = "None"

\* nothing was fetched for q, q is not in the authenticated pipeline and its
\* message list holds no turn of a memory
NoDataTouched(q) ==
    /\ task[q].intent = FetchFlags({})
    /\ task[q].context = EmptyContext
    /\ task[q].user_id = "None"
    /\ task[q].pc \notin {"persist_human", "persist_ai"}
    /\ Len(task[q].messages) <= 2

\* a step of the query q, after which q is a guest's on a socket or one
\* without identity
StepWithoutIdentity(q) ==
    /\ task'[q] # task[q]
    /\ \/ task'[q].entry = "ws" /\ ~sessions[task'[q].sid].is_authenticated
       \/ /\ task'[q].entry = "rest"
          /\ task'[q].user_id = "None"

====
